---- MODULE Spec2Model ----
(***************************************************************************)
(* Outgoing webhook retry workflow of the router crate                     *)
(* (crates/router/src/workflows/outgoing_webhook_retry.rs).                *)
(*                                                                         *)
(* One run of the workflow for a process-tracker row is one action.  The   *)
(* collaborators whose code lives in other crates (event store, process    *)
(* tracker store, scheduler utilities, delivery trigger) are modelled from *)
(* their documented contracts.  Every call the workflow makes is appended  *)
(* to the call log of the run, so that properties about which collaborator *)
(* was (not) invoked, and in which order, are state predicates.            *)
(***************************************************************************)
EXTENDS Integers, Sequences, FiniteSets, TLC

VARIABLES
    jobs,          \* process tracker rows, by job
    events,        \* the events table, in insertion order
    config,        \* the configs table entry for pt_mapping_outgoing_webhooks
    resource,      \* current status of the resource each job is about
    now,           \* the clock
    nextEventId,   \* source of fresh event ids
    faults,        \* failed or fault-injected runs so far, per job
    reschedules,   \* delays of the reschedules performed so far, per job
    last,          \* record of the most recent run of the workflow
    crashed,       \* record of the most recent run that died before returning
    exec,          \* the run in flight of each job, when runs go step by step
    r_in,          \* resolver harness: the input
    r_out,         \* resolver harness: the output
    customer_update,           \* conversion harness: the CustomerUpdate given
    customer_update_internal   \* conversion harness: the value converted to

vars == <<jobs, events, config, resource, now, nextEventId, faults,
          reschedules, last, crashed, exec, r_in, r_out,
          customer_update, customer_update_internal>>

orchestratorVars == <<jobs, events, config, resource, now, nextEventId,
                      faults, reschedules, last, crashed, exec>>

resolverVars == <<r_in, r_out>>

customerVars == <<customer_update, customer_update_internal>>

(***************************************************************************)
(* Bounds                                                                  *)
(***************************************************************************)
MaxFaults == 1      \* failed or fault-injected runs per job
MaxPairs == 2       \* (frequency, count) pairs of a drawn mapping
MaxCount == 2       \* largest count of a drawn pair
MaxAttempt == 7     \* largest attempt number given to the resolver harness

(***************************************************************************)
(* Option and Result                                                       *)
(***************************************************************************)
None == <<>>
Some(v) == <<v>>
IsSome(o) == o /= <<>>
Unwrap(o) == o[1]

Ok(v) == [ok |-> TRUE, val |-> Some(v), err |-> "-"]
Err(e) == [ok |-> FALSE, val |-> None, err |-> e]

Max(a, b) == IF a >= b THEN a ELSE b

RECURSIVE SumSeq(_)
SumSeq(s) == IF s = <<>> THEN 0 ELSE s[1] + SumSeq(Tail(s))

(***************************************************************************)
(* Enumerations and business status tags                                   *)
(***************************************************************************)
Jobs == {1, 2}

\* tasks about a dispute, a mandate and a payout
ClassJobs == {3, 4, 5}

AutomaticRetry == "AutomaticRetry"
InitialAttempt == "InitialAttempt"

RESOURCE_STATUS_MISMATCH == "RESOURCE_STATUS_MISMATCH"
RETRIES_EXCEEDED == "RETRIES_EXCEEDED"
COMPLETED_BY_PT == "COMPLETED_BY_PT"
Pending == "Pending"

ConfigKey == "pt_mapping_outgoing_webhooks"

\* strum snake_case Display of EventType, used by format!("{}_{}", ..)
EventTypeDisplay(event_type) ==
    CASE event_type = "PaymentSucceeded" -> "payment_succeeded"
      [] event_type = "PaymentFailed" -> "payment_failed"
      [] event_type = "RefundSucceeded" -> "refund_succeeded"
      [] event_type = "RefundFailed" -> "refund_failed"
      [] event_type = "DisputeOpened" -> "dispute_opened"
      [] event_type = "DisputeWon" -> "dispute_won"
      [] event_type = "MandateActive" -> "mandate_active"
      [] event_type = "MandateRevoked" -> "mandate_revoked"
      [] event_type = "PayoutSuccess" -> "payout_success"
      [] event_type = "PayoutFailed" -> "payout_failed"
      [] OTHER -> "unknown"

\* Option<EventType> from the status of the resource, per event class
StatusToEventType(event_class, status) ==
    CASE event_class = "Payments" /\ status = "succeeded" -> Some("PaymentSucceeded")
      [] event_class = "Payments" /\ status = "failed" -> Some("PaymentFailed")
      [] event_class = "Refunds" /\ status = "success" -> Some("RefundSucceeded")
      [] event_class = "Refunds" /\ status = "failure" -> Some("RefundFailed")
      [] event_class = "Disputes" /\ status = "dispute_opened" -> Some("DisputeOpened")
      [] event_class = "Disputes" /\ status = "dispute_won" -> Some("DisputeWon")
      [] event_class = "Mandates" /\ status = "active" -> Some("MandateActive")
      [] event_class = "Mandates" /\ status = "revoked" -> Some("MandateRevoked")
      [] event_class = "Payouts" /\ status = "success" -> Some("PayoutSuccess")
      [] event_class = "Payouts" /\ status = "failed" -> Some("PayoutFailed")
      [] OTHER -> None

Statuses(event_class) ==
    CASE event_class = "Payments" -> {"succeeded", "failed", "requires_payment_method"}
      [] event_class = "Refunds" -> {"success", "failure", "pending"}
      [] event_class = "Disputes" -> {"dispute_opened", "dispute_won"}
      [] event_class = "Mandates" -> {"active", "revoked", "pending"}
      [] OTHER -> {"success", "failed", "initiated"}

(***************************************************************************)
(* Retry schedule mappings                                                 *)
(***************************************************************************)
RetryMapping(start_after, frequency, count) ==
    [start_after |-> start_after, frequency |-> frequency, count |-> count]

\* OutgoingWebhookRetryProcessTrackerMapping::default()
DefaultProcessTrackerMapping ==
    [default_mapping |-> RetryMapping(60, <<300, 600>>, <<2, 1>>),
     custom_merchant_mapping |-> [m1 |-> None, m2 |-> None]]

\* the value documented on get_webhook_delivery_retry_schedule_time, with the
\* override entered for merchant m2
DocumentedMapping ==
    [default_mapping |-> RetryMapping(60, <<300>>, <<5>>),
     custom_merchant_mapping |->
         [m1 |-> None, m2 |-> Some(RetryMapping(30, <<300>>, <<2>>))]]

TwoStepMapping ==
    [default_mapping |-> RetryMapping(30, <<120, 600>>, <<3, 2>>),
     custom_merchant_mapping |-> [m1 |-> None, m2 |-> None]]

\* what find_config_by_key can yield for the key
ConfigStates ==
    { [kind |-> "NotFound", wellformed |-> FALSE, mapping |-> DefaultProcessTrackerMapping],
      [kind |-> "DbError", wellformed |-> FALSE, mapping |-> DefaultProcessTrackerMapping],
      [kind |-> "Value", wellformed |-> FALSE, mapping |-> DocumentedMapping],
      [kind |-> "Value", wellformed |-> TRUE, mapping |-> DocumentedMapping],
      [kind |-> "Value", wellformed |-> TRUE, mapping |-> TwoStepMapping] }

find_config_by_key(key) ==
    IF key = ConfigKey /\ config.kind = "Value" THEN Ok(config)
    ELSE IF config.kind = "DbError" THEN Err("DatabaseError")
    ELSE Err("ValueNotFound")

\* config.parse_struct("OutgoingWebhookRetryProcessTrackerMapping")
\*       .change_context(DeserializationFailed)
parse_mapping(value) ==
    IF value.wellformed THEN Ok(value.mapping) ELSE Err("DeserializationFailed")

is_db_not_found(error) == error = "ValueNotFound"

\* scheduler::utils::get_delay over the parallel frequency / count arrays
RECURSIVE get_delay(_, _, _, _)
get_delay(retry_count, frequency, count, cumulative_count) ==
    IF retry_count <= 0 \/ frequency = <<>> \/ count = <<>> THEN None
    ELSE IF cumulative_count + count[1] >= retry_count THEN Some(frequency[1])
    ELSE get_delay(retry_count, Tail(frequency), Tail(count),
                   cumulative_count + count[1])

\* scheduler::utils::get_outgoing_webhook_retry_schedule_time; the attempt
\* number is 1-based: attempt 1 uses start_after, later attempts walk the
\* (frequency, count) steps
get_outgoing_webhook_retry_schedule_time(mapping, merchant_id, retry_count) ==
    LET custom == mapping.custom_merchant_mapping[merchant_id]
        retry_mapping ==
            IF IsSome(custom) THEN Unwrap(custom) ELSE mapping.default_mapping
    IN IF retry_count = 1 THEN Some(retry_mapping.start_after)
       ELSE get_delay(retry_count - 1, retry_mapping.frequency,
                      retry_mapping.count, 0)

\* scheduler::utils::get_time_from_delta; at is the reading of the clock
get_time_from_delta(delta, at) ==
    IF IsSome(delta) THEN Some(at + Unwrap(delta)) ELSE None

\* mutation: the closures of map_or_else swapped, the read value is dropped
load_mapping_ignoring_config == DefaultProcessTrackerMapping

\* mutation: the value is used without checking that it deserializes
load_mapping_unchecked ==
    LET found == find_config_by_key(ConfigKey)
    IN IF found.ok THEN Unwrap(found.val).mapping ELSE DefaultProcessTrackerMapping

\* the mapping the function settles on (the result.map_or_else of the source)
load_mapping ==
    LET found == find_config_by_key(ConfigKey)
        result == IF found.ok THEN parse_mapping(Unwrap(found.val)) ELSE found
    IN IF result.ok THEN Unwrap(result.val) ELSE DefaultProcessTrackerMapping

\* mutation: the delta is added to the schedule time of the task, not to the
\* current time
get_webhook_delivery_retry_schedule_time_from_task(merchant_id, retry_count, at) ==
    get_time_from_delta(
        get_outgoing_webhook_retry_schedule_time(load_mapping, merchant_id,
                                                 retry_count),
        jobs[1].schedule_time)

\* mutation: the attempt number is shifted by one on the way to the scheduler
get_webhook_delivery_retry_schedule_time_shifted(merchant_id, retry_count, at) ==
    get_time_from_delta(
        get_outgoing_webhook_retry_schedule_time(load_mapping, merchant_id,
                                                 retry_count + 1), at)
\* mutation: the override of any merchant that has one is applied
get_webhook_delivery_retry_schedule_time_any_override(merchant_id, retry_count, at) ==
    LET mapping == load_mapping
        overridden == {m \in DOMAIN mapping.custom_merchant_mapping :
                          IsSome(mapping.custom_merchant_mapping[m])}
        time_delta == get_outgoing_webhook_retry_schedule_time(
                          mapping,
                          IF merchant_id \in overridden \/ overridden = {}
                          THEN merchant_id ELSE CHOOSE m \in overridden : TRUE,
                          retry_count)
    IN get_time_from_delta(time_delta, at)

get_webhook_delivery_retry_schedule_time(merchant_id, retry_count, at) ==
    LET mapping == load_mapping
        time_delta == get_outgoing_webhook_retry_schedule_time(
                          mapping, merchant_id, retry_count)
    IN get_time_from_delta(time_delta, at)

(***************************************************************************)
(* Runs of the workflow: the world a run acts on, and its call log          *)
(***************************************************************************)
\* w.events: the events table, w.job: the process tracker row, w.now: the
\* clock, w.calls: the collaborator calls made so far, w.ok / w.err: the Result
World(process) ==
    [events |-> events, job |-> process, now |-> Max(now, process.schedule_time),
     calls |-> <<>>, ok |-> TRUE, err |-> "-"]

Call(w, op, arg) == [w EXCEPT !.calls = Append(@, [op |-> op, arg |-> arg])]

Fail(w, e) == [w EXCEPT !.ok = FALSE, !.err = e]

\* the inputs of a run that the workflow does not control
FailurePoints ==
    {"none", "key_store", "business_profile", "find_event", "insert_event",
     "merchant_account", "fetch_error", "fetch_non_content", "request_content",
     "process_store"}

Envs == [fail : FailurePoints, transport : {"success", "failure"}]

\* where the worker can die in the middle of a run: once the event of the run
\* is stored, and once the request has gone out and no decision is taken yet
CrashPoints == {"crash_after_mint", "crash_after_send"}

BusinessProfiles ==
    [pro_1 |-> [profile_id |-> "pro_1", merchant_id |-> "m1"],
     pro_2 |-> [profile_id |-> "pro_2", merchant_id |-> "m2"]]

(***************************************************************************)
(* Process tracker store (scheduler crate)                                 *)
(***************************************************************************)
\* SchedulerInterface::retry_process: bump retry_count, set the schedule time,
\* leave the row pending
retry_process(w, process, schedule_time, env) ==
    LET w1 == Call(w, "retry_process", schedule_time)
    IN IF env.fail = "process_store" THEN Fail(w1, "DatabaseError")
       ELSE [w1 EXCEPT !.job = [process EXCEPT !.retry_count = @ + 1,
                                               !.schedule_time = schedule_time,
                                               !.status = "Pending"]]

\* SchedulerInterface::finish_process_with_business_status
finish_process_with_business_status(w, process, status, env) ==
    LET w1 == Call(w, "finish_process_with_business_status", status)
    IN IF env.fail = "process_store" THEN Fail(w1, "DatabaseError")
       ELSE [w1 EXCEPT !.job = [process EXCEPT !.status = "Finish",
                                               !.business_status = status]]

\* mutation: an exhausted schedule finishes the task with the success tag
retry_webhook_delivery_task_wrong_status(w, merchant_id, process, env) ==
    LET schedule_time ==
            get_webhook_delivery_retry_schedule_time(
                merchant_id, process.retry_count + 1, w.now)
        w1 == Call(w, "get_webhook_delivery_retry_schedule_time",
                   [retry_count |-> process.retry_count + 1,
                    schedule_time |-> schedule_time])
    IN IF IsSome(schedule_time)
       THEN retry_process(w1, process, Unwrap(schedule_time), env)
       ELSE finish_process_with_business_status(w1, process, COMPLETED_BY_PT, env)

\* mutation: an exhausted schedule leaves the task as it is
retry_webhook_delivery_task_no_finish(w, merchant_id, process, env) ==
    LET schedule_time ==
            get_webhook_delivery_retry_schedule_time(
                merchant_id, process.retry_count + 1, w.now)
        w1 == Call(w, "get_webhook_delivery_retry_schedule_time",
                   [retry_count |-> process.retry_count + 1,
                    schedule_time |-> schedule_time])
    IN IF IsSome(schedule_time)
       THEN retry_process(w1, process, Unwrap(schedule_time), env)
       ELSE w1

\* mutation: the schedule is asked for retry_count instead of retry_count + 1
retry_webhook_delivery_task_zero_based(w, merchant_id, process, env) ==
    LET schedule_time ==
            get_webhook_delivery_retry_schedule_time(
                merchant_id, process.retry_count, w.now)
        w1 == Call(w, "get_webhook_delivery_retry_schedule_time",
                   [retry_count |-> process.retry_count,
                    schedule_time |-> schedule_time])
    IN IF IsSome(schedule_time)
       THEN retry_process(w1, process, Unwrap(schedule_time), env)
       ELSE finish_process_with_business_status(w1, process, RETRIES_EXCEEDED, env)
\* mutation: an exhausted schedule starts over with the first attempt
retry_webhook_delivery_task_starting_over(w, merchant_id, process, env) ==
    LET schedule_time ==
            get_webhook_delivery_retry_schedule_time(
                merchant_id, process.retry_count + 1, w.now)
        first_time == get_webhook_delivery_retry_schedule_time(merchant_id, 1, w.now)
        w1 == Call(w, "get_webhook_delivery_retry_schedule_time",
                   [retry_count |-> process.retry_count + 1,
                    schedule_time |-> schedule_time])
    IN IF IsSome(schedule_time)
       THEN retry_process(w1, process, Unwrap(schedule_time), env)
       ELSE retry_process(w1, process, Unwrap(first_time), env)

\* mutation: the attempt number runs one ahead of the retry about to be scheduled
retry_webhook_delivery_task_one_ahead(w, merchant_id, process, env) ==
    LET schedule_time ==
            get_webhook_delivery_retry_schedule_time(
                merchant_id, process.retry_count + 2, w.now)
        w1 == Call(w, "get_webhook_delivery_retry_schedule_time",
                   [retry_count |-> process.retry_count + 2,
                    schedule_time |-> schedule_time])
    IN IF IsSome(schedule_time)
       THEN retry_process(w1, process, Unwrap(schedule_time), env)
       ELSE finish_process_with_business_status(w1, process, RETRIES_EXCEEDED, env)

\* Schedule the webhook delivery task for retry
retry_webhook_delivery_task(w, merchant_id, process, env) ==
    LET schedule_time ==
            get_webhook_delivery_retry_schedule_time(
                merchant_id, process.retry_count + 1, w.now)
        w1 == Call(w, "get_webhook_delivery_retry_schedule_time",
                   [retry_count |-> process.retry_count + 1,
                    schedule_time |-> schedule_time])
    IN IF IsSome(schedule_time)
       THEN retry_process(w1, process, Unwrap(schedule_time), env)
       ELSE finish_process_with_business_status(w1, process, RETRIES_EXCEEDED, env)

(***************************************************************************)
(* Events table and webhook utilities (core::webhooks)                     *)
(***************************************************************************)
\* webhooks_core::utils::generate_event_id
generate_event_id == "evt_" \o ToString(nextEventId)

\* webhooks_core::utils::get_idempotent_event_id
get_idempotent_event_id(primary_object_id, event_type, delivery_attempt) ==
    primary_object_id \o "_" \o EventTypeDisplay(event_type) \o "_" \o delivery_attempt

\* EventInterface::find_event_by_merchant_id_event_id
find_event_by_merchant_id_event_id(table, merchant_id, event_id) ==
    LET found == {i \in 1..Len(table) :
                     /\ table[i].event_id = event_id
                     /\ table[i].merchant_id = Some(merchant_id)}
    IN IF found = {} THEN Err("ValueNotFound")
       ELSE Ok(table[CHOOSE i \in found : TRUE])

\* EventInterface::insert_event: the row is appended and returned as stored;
\* the call log keeps the row that was handed over
insert_event(w, new_event, env) ==
    LET w1 == [w EXCEPT !.calls = Append(@, [op |-> "insert_event",
                                             arg |-> new_event.event_id,
                                             row |-> new_event])]
    IN IF env.fail = "insert_event" THEN Fail(w1, "DatabaseError")
       ELSE [w1 EXCEPT !.events = Append(@, new_event)]

\* the serialized OutgoingWebhookRequestContent kept in Event.request
SerializeRequest(request_content) ==
    <<"body", request_content.body, "headers", request_content.headers>>

\* request.get_inner().peek().parse_struct("OutgoingWebhookRequestContent")
parse_request_content(request) ==
    IF Len(request) = 4 /\ request[1] = "body" /\ request[3] = "headers"
    THEN Ok([body |-> request[2], headers |-> request[4]])
    ELSE Err("DeserializationFailed")

\* webhooks_core::get_outgoing_webhook_request: the webhook rendered as the
\* request body, with the headers of the business profile
get_outgoing_webhook_request(outgoing_webhook, business_profile) ==
    [body |-> <<outgoing_webhook.merchant_id, outgoing_webhook.event_id,
                outgoing_webhook.event_type, outgoing_webhook.content,
                outgoing_webhook.timestamp>>,
     headers |-> <<business_profile.profile_id>>]

\* webhooks_core::trigger_webhook_and_raise_event: send the request; a
\* delivered webhook finishes the task, a failed delivery of an automatic
\* retry goes to retry_webhook_delivery_task; nothing is returned to the caller
trigger_webhook_and_raise_event(w, business_profile, event, request_content, delivery_attempt, content, process, env) ==
    LET w1 == Call(w, "trigger_webhook_and_raise_event",
                   [event_id |-> event.event_id,
                    request_content |-> request_content,
                    delivery_attempt |-> delivery_attempt,
                    content |-> content])
        w2 == Call(w1, "send", request_content)
        \* the row of the event is updated by its event id
        delivered ==
            [w2 EXCEPT !.events =
                [i \in DOMAIN @ |->
                    IF @[i].event_id = event.event_id
                    THEN [@[i] EXCEPT !.is_webhook_notified = TRUE,
                                      !.is_overall_delivery_successful = Some(TRUE)]
                    ELSE @[i]]]
        w3 == IF env.transport = "success"
              THEN finish_process_with_business_status(delivered, process,
                                                       COMPLETED_BY_PT, env)
              ELSE retry_webhook_delivery_task(w2, business_profile.merchant_id,
                                               process, env)
    IN IF env.fail = "crash_after_send" THEN Fail(w2, "crashed")
       ELSE [w3 EXCEPT !.ok = TRUE, !.err = "-"]

(***************************************************************************)
(* Resource State Fetcher                                                  *)
(***************************************************************************)
\* classes whose domain service answers with an ApplicationResponse
AnswersWithApplicationResponse(event_class) ==
    event_class \in {"Payments", "Disputes", "Mandates"}

ContentKind(event_class) ==
    CASE event_class = "Payments" -> "PaymentDetails"
      [] event_class = "Refunds" -> "RefundDetails"
      [] event_class = "Disputes" -> "DisputeDetails"
      [] event_class = "Mandates" -> "MandateDetails"
      [] OTHER -> "PayoutDetails"

RetrieveCall(event_class) ==
    CASE event_class = "Payments" -> "payments_core"
      [] event_class = "Refunds" -> "refund_retrieve_core_with_refund_id"
      [] event_class = "Disputes" -> "retrieve_dispute"
      [] event_class = "Mandates" -> "get_mandate"
      [] OTHER -> "make_payout_data"

\* mutation: the payment and the refund are synced with the connector
RetrieveRequestForcingSync(event_class, id) ==
    [id |-> id,
     force_sync |-> IF event_class \in {"Payments", "Refunds"}
                    THEN Some(TRUE) ELSE None,
     connector_action |-> IF event_class = "Payments" THEN Some("Trigger") ELSE None]

\* what the domain service is asked: PaymentsRetrieveRequest with
\* CallConnectorAction::Avoid, RefundsRetrieveRequest, and for the other
\* classes the bare id (their services take no sync option)
RetrieveRequest(event_class, id) ==
    [id |-> id,
     force_sync |-> IF event_class \in {"Payments", "Refunds"}
                    THEN Some(FALSE) ELSE None,
     connector_action |-> IF event_class = "Payments" THEN Some("Avoid") ELSE None]

\* mutation: a response without content is passed on as "no event type"
get_outgoing_webhook_content_and_event_type_lenient(w, tracking_data, env) ==
    LET id == tracking_data.primary_object_id
        class == tracking_data.event_class
        w1 == Call(w, RetrieveCall(class), RetrieveRequest(class, id))
        status == resource[id]
    IN IF env.fail = "fetch_error"
       THEN [w |-> Fail(w1, "EApiErrorResponse"), content |-> <<>>, event_type |-> None]
       ELSE IF env.fail = "fetch_non_content" /\ AnswersWithApplicationResponse(class)
       THEN [w |-> w1, content |-> <<>>, event_type |-> None]
       ELSE [w |-> w1,
             content |-> <<ContentKind(class), id, status>>,
             event_type |-> StatusToEventType(class, status)]
\* mutation: the event type is taken from the tracking data, not from the
\* status the resource has now
get_outgoing_webhook_content_and_event_type_as_recorded(w, tracking_data, env) ==
    LET id == tracking_data.primary_object_id
        class == tracking_data.event_class
        w1 == Call(w, RetrieveCall(class), RetrieveRequest(class, id))
        status == resource[id]
    IN IF env.fail = "fetch_error"
       THEN [w |-> Fail(w1, "EApiErrorResponse"), content |-> <<>>, event_type |-> None]
       ELSE IF env.fail = "fetch_non_content" /\ AnswersWithApplicationResponse(class)
       THEN [w |-> Fail(w1, "ResourceFetchingFailed"), content |-> <<>>,
             event_type |-> None]
       ELSE [w |-> w1,
             content |-> <<ContentKind(class), id, status>>,
             event_type |-> Some(tracking_data.event_type)]

\* the value is [w, content, event_type]; w.ok = FALSE is the Err case
get_outgoing_webhook_content_and_event_type(w, tracking_data, env) ==
    LET id == tracking_data.primary_object_id
        class == tracking_data.event_class
        w1 == Call(w, RetrieveCall(class), RetrieveRequest(class, id))
        status == resource[id]
    IN IF env.fail = "fetch_error"
       THEN [w |-> Fail(w1, "EApiErrorResponse"), content |-> <<>>, event_type |-> None]
       ELSE IF env.fail = "fetch_non_content" /\ AnswersWithApplicationResponse(class)
       THEN [w |-> Fail(w1, "ResourceFetchingFailed"), content |-> <<>>,
             event_type |-> None]
       ELSE [w |-> w1,
             content |-> <<ContentKind(class), id, status>>,
             event_type |-> StatusToEventType(class, status)]

(***************************************************************************)
(* OutgoingWebhookRetryWorkflow                                            *)
(***************************************************************************)
\* mutation: tracking data that does not parse is used as it is
parse_tracking_data_lenient(raw) == Ok(raw)

\* process.tracking_data.parse_value("OutgoingWebhookTrackingData")
parse_tracking_data(raw) ==
    IF raw.wellformed THEN Ok(raw) ELSE Err("DeserializationFailed")
\* mutation: a delivery that failed is returned as the error of the run
replay_stored_request_returning_delivery_error(w, process, business_profile, event, request, env) ==
    LET parsed == parse_request_content(request)
        w1 == trigger_webhook_and_raise_event(
                  w, business_profile, event, Unwrap(parsed.val),
                  AutomaticRetry, None, process, env)
    IN IF ~parsed.ok THEN Fail(w, parsed.err)
       ELSE IF env.transport = "failure" THEN Fail(w1, "WebhookDeliveryFailed")
       ELSE w1

\* mutation: the id of the new event is stamped into the replayed body
replay_restamped_request(w, process, business_profile, event, request, env) ==
    LET parsed == parse_request_content(request)
    IN IF ~parsed.ok THEN Fail(w, parsed.err)
       ELSE trigger_webhook_and_raise_event(
                w, business_profile, event,
                [Unwrap(parsed.val) EXCEPT !.body[2] = event.event_id],
                AutomaticRetry, None, process, env)

\* Some(request): the stored request is parsed and handed over unchanged
replay_stored_request(w, process, business_profile, event, request, env) ==
    LET parsed == parse_request_content(request)
    IN IF ~parsed.ok THEN Fail(w, parsed.err)
       ELSE trigger_webhook_and_raise_event(
                w, business_profile, event, Unwrap(parsed.val),
                AutomaticRetry, None, process, env)

\* mutation: any current event type counts as unchanged
resource_status_present(event_type, tracking_data) == IsSome(event_type)

\* the guard `Some(event_type) if event_type == tracking_data.event_type`
resource_status_unchanged(event_type, tracking_data) ==
    IsSome(event_type) /\ Unwrap(event_type) = tracking_data.event_type

\* mutation: a changed resource status is treated as a failed delivery
reschedule_on_status_mismatch(w, process, env) ==
    retry_webhook_delivery_task(w, process.tracking_data.merchant_id, process, env)
\* mutation: the task is finished, and the changed status is reported as an error
finish_on_status_mismatch_as_error(w, process, env) ==
    Fail(finish_process_with_business_status(w, process, RESOURCE_STATUS_MISMATCH, env),
         "ResourceStatusMismatch")

\* mutation: the result of the finish call is dropped instead of returned
finish_on_status_mismatch_unchecked(w, process, env) ==
    [finish_process_with_business_status(w, process, RESOURCE_STATUS_MISMATCH, env)
        EXCEPT !.ok = TRUE, !.err = "-"]
\* mutation: when the store rejects the finish, the task is put back on the
\* retry schedule
finish_on_status_mismatch_retrying_on_store_error(w, process, env) ==
    LET w1 == finish_process_with_business_status(w, process,
                                                  RESOURCE_STATUS_MISMATCH, env)
    IN IF w1.ok THEN w1
       ELSE retry_webhook_delivery_task(
                [w1 EXCEPT !.ok = TRUE, !.err = "-"],
                process.tracking_data.merchant_id, process, env)

\* the arm `_ =>`: resource status has changed since the event was created
finish_on_status_mismatch(w, process, env) ==
    finish_process_with_business_status(w, process, RESOURCE_STATUS_MISMATCH, env)
\* mutation: the webhook announces the triggering event, not the event of the run
reconcile_and_deliver_as_triggering_event(w, process, tracking_data, business_profile, event, env) ==
    LET w1 == Call(w, "find_merchant_account_by_merchant_id",
                   tracking_data.merchant_id)
        fetched == get_outgoing_webhook_content_and_event_type(
                       w1, tracking_data, env)
        content == fetched.content
        event_type == fetched.event_type
        w2 == fetched.w
    IN IF env.fail = "merchant_account" THEN Fail(w1, "ValueNotFound")
       ELSE IF ~w2.ok THEN w2
       ELSE IF resource_status_unchanged(event_type, tracking_data)
       THEN LET outgoing_webhook ==
                    [merchant_id |-> tracking_data.merchant_id,
                     event_id |-> Unwrap(event.initial_attempt_id),
                     event_type |-> Unwrap(event_type),
                     content |-> content,
                     timestamp |-> 0]
                request_content ==
                    get_outgoing_webhook_request(outgoing_webhook, business_profile)
                w3 == Call(w2, "get_outgoing_webhook_request", outgoing_webhook)
            IN IF env.fail = "request_content"
               THEN Fail(w3, "EApiErrorResponse")
               ELSE trigger_webhook_and_raise_event(
                        w3, business_profile, event, request_content,
                        AutomaticRetry, Some(content), process, env)
       ELSE finish_on_status_mismatch(w2, process, env)
\* mutation: a resource whose status maps to no event type fails the run
reconcile_and_deliver_rejecting_unmapped_status(w, process, tracking_data, business_profile, event, env) ==
    LET w1 == Call(w, "find_merchant_account_by_merchant_id",
                   tracking_data.merchant_id)
        fetched == get_outgoing_webhook_content_and_event_type(
                       w1, tracking_data, env)
        content == fetched.content
        event_type == fetched.event_type
        w2 == fetched.w
    IN IF env.fail = "merchant_account" THEN Fail(w1, "ValueNotFound")
       ELSE IF ~w2.ok THEN w2
       ELSE IF ~IsSome(event_type) THEN Fail(w2, "ResourceFetchingFailed")
       ELSE IF resource_status_unchanged(event_type, tracking_data)
       THEN LET outgoing_webhook ==
                    [merchant_id |-> tracking_data.merchant_id,
                     event_id |-> event.event_id,
                     event_type |-> Unwrap(event_type),
                     content |-> content,
                     timestamp |-> event.created_at]
                request_content ==
                    get_outgoing_webhook_request(outgoing_webhook, business_profile)
                w3 == Call(w2, "get_outgoing_webhook_request", outgoing_webhook)
            IN IF env.fail = "request_content"
               THEN Fail(w3, "EApiErrorResponse")
               ELSE trigger_webhook_and_raise_event(
                        w3, business_profile, event, request_content,
                        AutomaticRetry, Some(content), process, env)
       ELSE finish_on_status_mismatch(w2, process, env)

\* None: event inserted by an old version, fetch the current state of the
\* resource and compare
reconcile_and_deliver(w, process, tracking_data, business_profile, event, env) ==
    LET w1 == Call(w, "find_merchant_account_by_merchant_id",
                   tracking_data.merchant_id)
        fetched == get_outgoing_webhook_content_and_event_type(
                       w1, tracking_data, env)
        content == fetched.content
        event_type == fetched.event_type
        w2 == fetched.w
    IN IF env.fail = "merchant_account" THEN Fail(w1, "ValueNotFound")
       ELSE IF ~w2.ok THEN w2
       ELSE IF resource_status_unchanged(event_type, tracking_data)
       THEN LET outgoing_webhook ==
                    [merchant_id |-> tracking_data.merchant_id,
                     event_id |-> event.event_id,
                     event_type |-> Unwrap(event_type),
                     content |-> content,
                     timestamp |-> event.created_at]
                request_content ==
                    get_outgoing_webhook_request(outgoing_webhook, business_profile)
                w3 == Call(w2, "get_outgoing_webhook_request", outgoing_webhook)
            IN IF env.fail = "request_content"
               THEN Fail(w3, "EApiErrorResponse")
               ELSE trigger_webhook_and_raise_event(
                        w3, business_profile, event, request_content,
                        AutomaticRetry, Some(content), process, env)
       ELSE finish_on_status_mismatch(w2, process, env)
\* mutation: the stored request is ignored, the resource is always fetched
deliver_or_finish_always_reconciling(w, process, tracking_data, business_profile, event, env) ==
    reconcile_and_deliver(w, process, tracking_data, business_profile, event, env)

\* the match on event.request
deliver_or_finish(w, process, tracking_data, business_profile, event, env) ==
    IF IsSome(event.request)
    THEN replay_stored_request(w, process, business_profile, event,
                               Unwrap(event.request), env)
    ELSE reconcile_and_deliver(w, process, tracking_data, business_profile,
                               event, env)
\* mutation: the delivery attempt is copied from the triggering event
new_event_of_copying_delivery_attempt(initial_event, business_profile, event_id, idempotent_event_id, at) ==
    [event_id |-> event_id,
     event_type |-> initial_event.event_type,
     event_class |-> initial_event.event_class,
     is_webhook_notified |-> FALSE,
     primary_object_id |-> initial_event.primary_object_id,
     primary_object_type |-> initial_event.primary_object_type,
     created_at |-> at,
     merchant_id |-> Some(business_profile.merchant_id),
     business_profile_id |-> Some(business_profile.profile_id),
     primary_object_created_at |-> initial_event.primary_object_created_at,
     idempotent_event_id |-> Some(idempotent_event_id),
     initial_attempt_id |-> Some(initial_event.event_id),
     request |-> initial_event.request,
     response |-> None,
     delivery_attempt |-> initial_event.delivery_attempt,
     metadata |-> initial_event.metadata,
     is_overall_delivery_successful |-> Some(FALSE)]

\* mutation: the idempotent id is copied from the triggering event
new_event_of_copying_idempotent_id(initial_event, business_profile, event_id, idempotent_event_id, at) ==
    [event_id |-> event_id,
     event_type |-> initial_event.event_type,
     event_class |-> initial_event.event_class,
     is_webhook_notified |-> FALSE,
     primary_object_id |-> initial_event.primary_object_id,
     primary_object_type |-> initial_event.primary_object_type,
     created_at |-> at,
     merchant_id |-> Some(business_profile.merchant_id),
     business_profile_id |-> Some(business_profile.profile_id),
     primary_object_created_at |-> initial_event.primary_object_created_at,
     idempotent_event_id |-> initial_event.idempotent_event_id,
     initial_attempt_id |-> Some(initial_event.event_id),
     request |-> initial_event.request,
     response |-> None,
     delivery_attempt |-> Some(AutomaticRetry),
     metadata |-> initial_event.metadata,
     is_overall_delivery_successful |-> Some(FALSE)]

\* mutation: the new event keeps the id of the triggering event
new_event_of_reusing_event_id(initial_event, business_profile, event_id, idempotent_event_id, at) ==
    [event_id |-> initial_event.event_id,
     event_type |-> initial_event.event_type,
     event_class |-> initial_event.event_class,
     is_webhook_notified |-> FALSE,
     primary_object_id |-> initial_event.primary_object_id,
     primary_object_type |-> initial_event.primary_object_type,
     created_at |-> at,
     merchant_id |-> Some(business_profile.merchant_id),
     business_profile_id |-> Some(business_profile.profile_id),
     primary_object_created_at |-> initial_event.primary_object_created_at,
     idempotent_event_id |-> Some(idempotent_event_id),
     initial_attempt_id |-> Some(initial_event.event_id),
     request |-> initial_event.request,
     response |-> None,
     delivery_attempt |-> Some(AutomaticRetry),
     metadata |-> initial_event.metadata,
     is_overall_delivery_successful |-> Some(FALSE)]

\* mutation: the idempotent id is used as the id of the new event
new_event_of_keyed_by_idempotent_id(initial_event, business_profile, event_id, idempotent_event_id, at) ==
    [event_id |-> idempotent_event_id,
     event_type |-> initial_event.event_type,
     event_class |-> initial_event.event_class,
     is_webhook_notified |-> FALSE,
     primary_object_id |-> initial_event.primary_object_id,
     primary_object_type |-> initial_event.primary_object_type,
     created_at |-> at,
     merchant_id |-> Some(business_profile.merchant_id),
     business_profile_id |-> Some(business_profile.profile_id),
     primary_object_created_at |-> initial_event.primary_object_created_at,
     idempotent_event_id |-> Some(idempotent_event_id),
     initial_attempt_id |-> Some(initial_event.event_id),
     request |-> initial_event.request,
     response |-> None,
     delivery_attempt |-> Some(AutomaticRetry),
     metadata |-> initial_event.metadata,
     is_overall_delivery_successful |-> Some(FALSE)]

\* mutation: as on the initial attempt, the event refers to itself
new_event_of_self_referencing(initial_event, business_profile, event_id, idempotent_event_id, at) ==
    [event_id |-> event_id,
     event_type |-> initial_event.event_type,
     event_class |-> initial_event.event_class,
     is_webhook_notified |-> FALSE,
     primary_object_id |-> initial_event.primary_object_id,
     primary_object_type |-> initial_event.primary_object_type,
     created_at |-> at,
     merchant_id |-> Some(business_profile.merchant_id),
     business_profile_id |-> Some(business_profile.profile_id),
     primary_object_created_at |-> initial_event.primary_object_created_at,
     idempotent_event_id |-> Some(idempotent_event_id),
     initial_attempt_id |-> Some(event_id),
     request |-> initial_event.request,
     response |-> None,
     delivery_attempt |-> Some(AutomaticRetry),
     metadata |-> initial_event.metadata,
     is_overall_delivery_successful |-> Some(FALSE)]

\* the domain::Event of this run
new_event_of(initial_event, business_profile, event_id, idempotent_event_id, at) ==
    [event_id |-> event_id,
     event_type |-> initial_event.event_type,
     event_class |-> initial_event.event_class,
     is_webhook_notified |-> FALSE,
     primary_object_id |-> initial_event.primary_object_id,
     primary_object_type |-> initial_event.primary_object_type,
     created_at |-> at,
     merchant_id |-> Some(business_profile.merchant_id),
     business_profile_id |-> Some(business_profile.profile_id),
     primary_object_created_at |-> initial_event.primary_object_created_at,
     idempotent_event_id |-> Some(idempotent_event_id),
     initial_attempt_id |-> Some(initial_event.event_id),
     request |-> initial_event.request,
     response |-> None,
     delivery_attempt |-> Some(AutomaticRetry),
     metadata |-> initial_event.metadata,
     is_overall_delivery_successful |-> Some(FALSE)]

\* mutation: the webhook goes out first, the event is stored afterwards
deliver_then_mint(w, process, tracking_data, business_profile, initial_event, event_id, idempotent_event_id, env) ==
    LET new_event == new_event_of(initial_event, business_profile, event_id,
                                  idempotent_event_id, w.now)
        w1 == deliver_or_finish(w, process, tracking_data, business_profile,
                                new_event, env)
    IN IF ~w1.ok THEN w1 ELSE insert_event(w1, new_event, env)

\* mutation: the error of insert_event is logged and the run carries on
mint_and_deliver_unchecked(w, process, tracking_data, business_profile, initial_event, event_id, idempotent_event_id, env) ==
    LET new_event == new_event_of(initial_event, business_profile, event_id,
                                  idempotent_event_id, w.now)
        w1 == insert_event(w, new_event, env)
    IN deliver_or_finish([w1 EXCEPT !.ok = TRUE, !.err = "-"], process,
                         tracking_data, business_profile, new_event, env)
\* mutation: the event is stored in a transaction with the delivery, and a
\* failed delivery step takes the event out again
mint_and_deliver_rolling_back(w, process, tracking_data, business_profile, initial_event, event_id, idempotent_event_id, env) ==
    LET new_event == new_event_of(initial_event, business_profile, event_id,
                                  idempotent_event_id, w.now)
        w1 == insert_event(w, new_event, env)
        w2 == deliver_or_finish(w1, process, tracking_data, business_profile,
                                new_event, env)
    IN IF ~w1.ok THEN w1
       ELSE IF env.fail = "crash_after_mint" THEN Fail(w1, "crashed")
       ELSE IF ~w2.ok THEN [w2 EXCEPT !.events = w.events]
       ELSE w2

\* storing the event of this run, then delivering
mint_and_deliver(w, process, tracking_data, business_profile, initial_event, event_id, idempotent_event_id, env) ==
    LET new_event == new_event_of(initial_event, business_profile, event_id,
                                  idempotent_event_id, w.now)
        w1 == insert_event(w, new_event, env)
    IN IF ~w1.ok THEN w1
       ELSE IF env.fail = "crash_after_mint" THEN Fail(w1, "crashed")
       ELSE deliver_or_finish(w1, process, tracking_data, business_profile,
                              new_event, env)

\* mutation: the old event id is built from the Debug form of the event type
lookup_event_id_debug_format(tracking_data) ==
    IF IsSome(tracking_data.initial_attempt_id)
    THEN Unwrap(tracking_data.initial_attempt_id)
    ELSE tracking_data.primary_object_id \o "_" \o tracking_data.event_type

\* the id the triggering event is looked up by: the initial attempt id, or
\* for tracking data of an old version the old event id format
lookup_event_id(tracking_data) ==
    IF IsSome(tracking_data.initial_attempt_id)
    THEN Unwrap(tracking_data.initial_attempt_id)
    ELSE tracking_data.primary_object_id \o "_"
             \o EventTypeDisplay(tracking_data.event_type)

execute_workflow(process, env) ==
    LET w0 == World(process)
        parsed == parse_tracking_data(process.tracking_data)
    IN IF ~parsed.ok THEN Fail(w0, parsed.err)
       ELSE
       LET tracking_data == Unwrap(parsed.val)
           w1 == Call(w0, "get_merchant_key_store_by_merchant_id",
                      tracking_data.merchant_id)
           w2 == Call(w1, "find_business_profile_by_profile_id",
                      tracking_data.business_profile_id)
           business_profile == BusinessProfiles[tracking_data.business_profile_id]
           event_id == generate_event_id
           idempotent_event_id ==
               get_idempotent_event_id(tracking_data.primary_object_id,
                                       tracking_data.event_type, AutomaticRetry)
           lookup_id == lookup_event_id(tracking_data)
           w3 == Call(Call(w2, "generate_event_id", event_id),
                      "find_event_by_merchant_id_event_id", lookup_id)
           initial_event == find_event_by_merchant_id_event_id(
                                events, business_profile.merchant_id, lookup_id)
       IN IF env.fail = "key_store" THEN Fail(w1, "ValueNotFound")
          ELSE IF env.fail = "business_profile" THEN Fail(w2, "ValueNotFound")
          ELSE IF env.fail = "find_event" THEN Fail(w3, "DatabaseError")
          ELSE IF ~initial_event.ok THEN Fail(w3, initial_event.err)
          ELSE mint_and_deliver(w3, process, tracking_data, business_profile,
                                Unwrap(initial_event.val), event_id,
                                idempotent_event_id, env)
\* mutation: a failed run is rescheduled by the webhook retry schedule
error_handler_rescheduling(w, process, error) ==
    retry_webhook_delivery_task(w, process.tracking_data.merchant_id, process,
                                [fail |-> "none", transport |-> "failure"])

\* ProcessTrackerWorkflow::error_handler
error_handler(w, process, error) == Call(w, "consumer_error_handler", error)

(***************************************************************************)
(* CustomerUpdate into CustomerUpdateInternal                              *)
(* (crates/hyperswitch_domain_models/src/customer.rs)                      *)
(***************************************************************************)
\* Encryption::from(Encryptable): the encrypted part is kept, the decrypted
\* value is dropped
EncryptionFrom(encryptable) == [inner |-> encryptable.encrypted]

\* Option::map(Encryption::from)
MapEncryptionFrom(o) == IF IsSome(o) THEN Some(EncryptionFrom(Unwrap(o))) ELSE None

\* mutation: the general update is stamped with who made it
customer_update_internal_from_v1_stamping_updated_by(customer_update_, at) ==
    CASE customer_update_.variant = "Update" ->
             [name |-> MapEncryptionFrom(customer_update_.name),
              email |-> MapEncryptionFrom(customer_update_.email),
              phone |-> MapEncryptionFrom(customer_update_.phone),
              description |-> customer_update_.description,
              phone_country_code |-> customer_update_.phone_country_code,
              metadata |-> customer_update_.metadata,
              connector_customer |-> customer_update_.connector_customer,
              modified_at |-> at,
              address_id |-> customer_update_.address_id,
              default_payment_method_id |-> None,
              updated_by |-> Some("merchant")]
      [] customer_update_.variant = "ConnectorCustomer" ->
             [connector_customer |-> customer_update_.connector_customer,
              modified_at |-> at,
              name |-> None, email |-> None, phone |-> None,
              description |-> None, phone_country_code |-> None,
              metadata |-> None, default_payment_method_id |-> None,
              updated_by |-> None, address_id |-> None]
      [] OTHER ->
             [default_payment_method_id |-> customer_update_.default_payment_method_id,
              modified_at |-> at,
              name |-> None, email |-> None, phone |-> None,
              description |-> None, phone_country_code |-> None,
              metadata |-> None, connector_customer |-> None,
              updated_by |-> None, address_id |-> None]

\* impl From<CustomerUpdate> for CustomerUpdateInternal, feature v1; at is
\* the reading of date_time::now()
customer_update_internal_from_v1(customer_update_, at) ==
    CASE customer_update_.variant = "Update" ->
             [name |-> MapEncryptionFrom(customer_update_.name),
              email |-> MapEncryptionFrom(customer_update_.email),
              phone |-> MapEncryptionFrom(customer_update_.phone),
              description |-> customer_update_.description,
              phone_country_code |-> customer_update_.phone_country_code,
              metadata |-> customer_update_.metadata,
              connector_customer |-> customer_update_.connector_customer,
              modified_at |-> at,
              address_id |-> customer_update_.address_id,
              default_payment_method_id |-> None,
              updated_by |-> None]
      [] customer_update_.variant = "ConnectorCustomer" ->
             [connector_customer |-> customer_update_.connector_customer,
              modified_at |-> at,
              name |-> None, email |-> None, phone |-> None,
              description |-> None, phone_country_code |-> None,
              metadata |-> None, default_payment_method_id |-> None,
              updated_by |-> None, address_id |-> None]
      [] OTHER ->
             [default_payment_method_id |-> customer_update_.default_payment_method_id,
              modified_at |-> at,
              name |-> None, email |-> None, phone |-> None,
              description |-> None, phone_country_code |-> None,
              metadata |-> None, connector_customer |-> None,
              updated_by |-> None, address_id |-> None]

\* impl From<CustomerUpdate> for CustomerUpdateInternal, feature v2
customer_update_internal_from_v2(customer_update_, at) ==
    CASE customer_update_.variant = "Update" ->
             [name |-> MapEncryptionFrom(customer_update_.name),
              email |-> MapEncryptionFrom(customer_update_.email),
              phone |-> MapEncryptionFrom(customer_update_.phone),
              description |-> customer_update_.description,
              phone_country_code |-> customer_update_.phone_country_code,
              metadata |-> customer_update_.metadata,
              connector_customer |-> customer_update_.connector_customer,
              modified_at |-> at,
              default_billing_address |-> customer_update_.default_billing_address,
              default_shipping_address |-> customer_update_.default_shipping_address,
              default_payment_method_id |-> customer_update_.default_payment_method_id,
              updated_by |-> None,
              status |-> customer_update_.status]
      [] customer_update_.variant = "ConnectorCustomer" ->
             [connector_customer |-> customer_update_.connector_customer,
              name |-> None, email |-> None, phone |-> None,
              description |-> None, phone_country_code |-> None,
              metadata |-> None,
              modified_at |-> at,
              default_payment_method_id |-> None, updated_by |-> None,
              default_billing_address |-> None,
              default_shipping_address |-> None, status |-> None]
      [] OTHER ->
             [default_payment_method_id |-> customer_update_.default_payment_method_id,
              modified_at |-> at,
              name |-> None, email |-> None, phone |-> None,
              description |-> None, phone_country_code |-> None,
              metadata |-> None, connector_customer |-> None,
              updated_by |-> None, default_billing_address |-> None,
              default_shipping_address |-> None, status |-> None]

\* the impl the build has: v1 and v2 are exclusive features
customer_update_internal_from(customer_update_, at) ==
    IF customer_update_.version = "v1"
    THEN customer_update_internal_from_v1(customer_update_, at)
    ELSE customer_update_internal_from_v2(customer_update_, at)

(***************************************************************************)
(* Initial states: the rows left behind by the initial delivery attempt     *)
(***************************************************************************)
JobSubject ==
    [j \in Jobs \cup ClassJobs |->
        CASE j = 1 ->
             [merchant_id |-> "m1", business_profile_id |-> "pro_1",
              primary_object_id |-> "pay_1", event_type |-> "PaymentSucceeded",
              event_class |-> "Payments", status |-> "succeeded",
              legacy_event_id |-> "pay_1_payment_succeeded",
              event_id |-> "evt_a"]
          [] j = 2 ->
             [merchant_id |-> "m2", business_profile_id |-> "pro_2",
              primary_object_id |-> "ref_1", event_type |-> "RefundSucceeded",
              event_class |-> "Refunds", status |-> "success",
              legacy_event_id |-> "ref_1_refund_succeeded",
              event_id |-> "evt_b"]
          [] j = 3 ->
             [merchant_id |-> "m1", business_profile_id |-> "pro_1",
              primary_object_id |-> "dp_1", event_type |-> "DisputeOpened",
              event_class |-> "Disputes", status |-> "dispute_opened",
              legacy_event_id |-> "dp_1_dispute_opened",
              event_id |-> "evt_c"]
          [] j = 4 ->
             [merchant_id |-> "m1", business_profile_id |-> "pro_1",
              primary_object_id |-> "man_1", event_type |-> "MandateActive",
              event_class |-> "Mandates", status |-> "active",
              legacy_event_id |-> "man_1_mandate_active",
              event_id |-> "evt_d"]
          [] OTHER ->
             [merchant_id |-> "m2", business_profile_id |-> "pro_2",
              primary_object_id |-> "po_1", event_type |-> "PayoutSuccess",
              event_class |-> "Payouts", status |-> "success",
              legacy_event_id |-> "po_1_payout_success",
              event_id |-> "evt_e"]]

\* how the initial attempt recorded its event and its tracking data
Scenarios(j) ==
    LET all == [wellformed : BOOLEAN, chained : BOOLEAN,
                request : {"absent", "present", "malformed", "unrecorded"}]
    IN IF j = 1
       THEN {sc \in all : /\ ~sc.wellformed => (sc.chained /\ sc.request = "present")
                          /\ sc.request = "unrecorded" => sc.chained}
       ELSE {sc \in all : /\ sc.wellformed
                          /\ sc.request /= "malformed"
                          /\ sc.chained \/ sc.request = "absent"}

InitialEventId(j, sc) ==
    IF sc.chained THEN JobSubject[j].event_id ELSE JobSubject[j].legacy_event_id

InitialRequestContent(j, sc) ==
    get_outgoing_webhook_request(
        [merchant_id |-> JobSubject[j].merchant_id,
         event_id |-> InitialEventId(j, sc),
         event_type |-> JobSubject[j].event_type,
         content |-> <<ContentKind(JobSubject[j].event_class),
                       JobSubject[j].primary_object_id, JobSubject[j].status>>,
         timestamp |-> 0],
        BusinessProfiles[JobSubject[j].business_profile_id])

InitialEvent(j, sc) ==
    LET sub == JobSubject[j]
        serialized == SerializeRequest(InitialRequestContent(j, sc))
    IN [event_id |-> InitialEventId(j, sc),
        event_type |-> sub.event_type,
        event_class |-> sub.event_class,
        is_webhook_notified |-> FALSE,
        primary_object_id |-> sub.primary_object_id,
        primary_object_type |-> ContentKind(sub.event_class),
        created_at |-> 0,
        merchant_id |-> Some(sub.merchant_id),
        business_profile_id |-> Some(sub.business_profile_id),
        primary_object_created_at |-> Some(0),
        idempotent_event_id |->
            IF sc.chained
            THEN Some(get_idempotent_event_id(sub.primary_object_id,
                                              sub.event_type, InitialAttempt))
            ELSE None,
        initial_attempt_id |-> IF sc.chained THEN Some(InitialEventId(j, sc)) ELSE None,
        request |-> CASE sc.request = "absent" -> None
                      [] sc.request = "present" -> Some(serialized)
                      [] OTHER -> Some(<<"body", serialized[2], "hdrs", serialized[4]>>),
        response |-> None,
        delivery_attempt |-> IF sc.chained THEN Some(InitialAttempt) ELSE None,
        metadata |-> None,
        is_overall_delivery_successful |-> Some(FALSE)]

InitialProcess(j, sc) ==
    LET sub == JobSubject[j]
    IN [tracking_data |->
            [wellformed |-> sc.wellformed,
             merchant_id |-> sub.merchant_id,
             business_profile_id |-> sub.business_profile_id,
             primary_object_id |-> sub.primary_object_id,
             event_type |-> sub.event_type,
             event_class |-> sub.event_class,
             initial_attempt_id |->
                 IF sc.chained THEN Some(InitialEventId(j, sc)) ELSE None],
        retry_count |-> 0,
        schedule_time |-> 0,
        status |-> "Pending",
        business_status |-> Pending]

NoRun ==
    [job |-> 0, env |-> [fail |-> "none", transport |-> "success"],
     before |-> InitialProcess(1, [wellformed |-> TRUE, chained |-> TRUE,
                                   request |-> "present"]),
     after |-> InitialProcess(1, [wellformed |-> TRUE, chained |-> TRUE,
                                  request |-> "present"]),
     status |-> "succeeded",
     ok |-> TRUE, err |-> "-", calls |-> <<>>, at |-> 0]
\* no CustomerUpdate is being converted
NoCustomerUpdate == [version |-> "v1", variant |-> "none"]

\* no run of the job is in flight
NoExecution ==
    [pc |-> "idle", done |-> FALSE, env |-> NoRun.env, before |-> NoRun.before,
     w |-> <<>>, locals |-> <<>>, ref |-> <<>>]

IdleResolver == [merchant_id |-> "m1", retry_count |-> 1]

\* the tables when the tasks of J are waiting for their first retry, each
\* recorded as chosen by sc
InitRows(J, sc) ==
    /\ jobs = [j \in J |-> InitialProcess(j, sc[j])]
    \* "unrecorded": the event of the initial attempt is not in the table
    /\ LET R == {j \in J : sc[j].request /= "unrecorded"}
       IN events = [i \in 1..Cardinality(R) |->
                       LET j == CHOOSE k \in R : Cardinality({m \in R : m < k}) = i - 1
                       IN InitialEvent(j, sc[j])]
    /\ resource = [pay_1 |-> "succeeded", ref_1 |-> "success",
                   dp_1 |-> "dispute_opened", man_1 |-> "active",
                   po_1 |-> "success"]
    /\ now = 0
    /\ nextEventId = 1
    /\ reschedules = [j \in J |-> <<>>]
    /\ last = NoRun
    /\ crashed = NoRun
    /\ exec = [j \in J |-> NoExecution]
    /\ customer_update = NoCustomerUpdate
    /\ customer_update_internal = None

InitTables(J, sc) ==
    /\ InitRows(J, sc)
    /\ faults = [j \in J |-> 0]

\* one task in the process tracker
Init ==
    /\ config \in {c \in ConfigStates : c.kind /= "DbError"}
    /\ \E j \in Jobs : \E s \in Scenarios(j) : InitTables({j}, [k \in {j} |-> s])
    /\ r_in = IdleResolver
    /\ r_out = [done |-> FALSE, time |-> None]

\* the tables of the resolver harness: one task, recorded in the current format
InitOrchestrator ==
    InitTables({1}, [k \in {1} |-> [wellformed |-> TRUE, chained |-> TRUE,
                                     request |-> "present"]])

(***************************************************************************)
(* Actions                                                                 *)
(***************************************************************************)
\* the collaborator call at which each failure point sits
FaultSites(fail) ==
    CASE fail = "key_store" -> {"get_merchant_key_store_by_merchant_id"}
      [] fail = "business_profile" -> {"find_business_profile_by_profile_id"}
      [] fail = "find_event" -> {"find_event_by_merchant_id_event_id"}
      [] fail = "insert_event" -> {"insert_event"}
      [] fail = "merchant_account" -> {"find_merchant_account_by_merchant_id"}
      [] fail = "fetch_error" ->
             {"payments_core", "refund_retrieve_core_with_refund_id",
              "retrieve_dispute", "get_mandate", "make_payout_data"}
      [] fail = "fetch_non_content" ->
             {"payments_core", "retrieve_dispute", "get_mandate"}
      [] fail = "request_content" -> {"get_outgoing_webhook_request"}
      [] fail = "process_store" ->
             {"retry_process", "finish_process_with_business_status"}
      [] OTHER -> {}

\* an input is part of a run only when the run gets to it: a collaborator
\* fails only if it is called, the transport answers only if it is used;
\* smooth is the run of the same task in which nothing fails
EnvObserved(smooth, env) ==
    /\ env.fail /= "none" =>
          \E i \in 1..Len(smooth.calls) : smooth.calls[i].op \in FaultSites(env.fail)
    /\ env.transport = "failure" =>
          /\ \E i \in 1..Len(smooth.calls) : smooth.calls[i].op = "send"
          /\ env.fail \in {"none", "process_store"}

\* the consumer runs the workflow of a pending task once it is due; a failed
\* run is handed to error_handler
RunWorkflow(j) ==
    /\ jobs[j].status = "Pending"
    /\ \E process \in {jobs[j]} :
       \E smooth \in {execute_workflow(process, [fail |-> "none",
                                                 transport |-> "success"])} :
       \E env \in {e \in Envs : EnvObserved(smooth, e)} :
       \E run \in {execute_workflow(process, env)} :
       \E w \in {IF run.ok THEN run ELSE error_handler(run, process, run.err)} :
          LET faulty == env.fail /= "none" \/ ~run.ok
          IN /\ faulty => faults[j] < MaxFaults
             /\ jobs' = [jobs EXCEPT ![j] = w.job]
             /\ events' = w.events
             /\ now' = w.now
             /\ nextEventId' =
                    IF \E i \in 1..Len(w.calls) : w.calls[i].op = "generate_event_id"
                    THEN nextEventId + 1 ELSE nextEventId
             /\ faults' = [faults EXCEPT ![j] = IF faulty THEN @ + 1 ELSE @]
             /\ reschedules' =
                    [reschedules EXCEPT ![j] =
                        IF w.job.retry_count = process.retry_count + 1
                        THEN Append(@, w.job.schedule_time - w.now) ELSE @]
             /\ last' = [job |-> j, env |-> env, before |-> process,
                         after |-> w.job,
                         status |-> resource[JobSubject[j].primary_object_id],
                         ok |-> w.ok, err |-> w.err, calls |-> w.calls,
                         at |-> w.now]
    /\ UNCHANGED <<config, resource, crashed, exec, r_in, r_out, customerVars>>

\* the resource moves to another status while the task waits
ResourceStatusChange(j) ==
    /\ jobs[j].status = "Pending"
    /\ \E status \in Statuses(JobSubject[j].event_class) :
          /\ status /= resource[JobSubject[j].primary_object_id]
          /\ resource' = [resource EXCEPT ![JobSubject[j].primary_object_id] = status]
    /\ UNCHANGED <<jobs, events, config, now, nextEventId, faults,
                   reschedules, last, crashed, exec, r_in, r_out, customerVars>>

Next ==
    \/ \E j \in DOMAIN jobs : RunWorkflow(j)
    \/ \E j \in DOMAIN jobs : ResourceStatusChange(j)

Spec == Init /\ [][Next]_vars

\* the recording of a task in the format of the old version: tracking data
\* without initial_attempt_id, event without stored request
LegacyScenario == [wellformed |-> TRUE, chained |-> FALSE, request |-> "absent"]

CurrentScenario == [wellformed |-> TRUE, chained |-> TRUE, request |-> "present"]

NoConfig ==
    [kind |-> "NotFound", wellformed |-> FALSE, mapping |-> DefaultProcessTrackerMapping]

\* one task of any of the five event classes, recorded by the old version
InitClasses ==
    /\ config = NoConfig
    /\ \E j \in Jobs \cup ClassJobs : InitTables({j}, [k \in {j} |-> LegacyScenario])
    /\ r_in = IdleResolver
    /\ r_out = [done |-> FALSE, time |-> None]

SpecClasses == InitClasses /\ [][Next]_vars

\* two tasks of two merchants waiting at the same time
ShortMapping ==
    [default_mapping |-> RetryMapping(60, <<300>>, <<1>>),
     custom_merchant_mapping |-> [m1 |-> None, m2 |-> None]]

InitPair ==
    /\ config = [kind |-> "Value", wellformed |-> TRUE, mapping |-> ShortMapping]
    /\ InitRows({1, 2}, [k \in {1, 2} |->
                             IF k = 1 THEN CurrentScenario ELSE LegacyScenario])
    \* one run of one of the two tasks may fail
    /\ \E j \in {1, 2} : faults = [k \in {1, 2} |-> IF k = j THEN MaxFaults - 1
                                                     ELSE MaxFaults]
    /\ r_in = IdleResolver
    /\ r_out = [done |-> FALSE, time |-> None]

\* the resources of the two tasks stay as they are
NextPair == \E j \in DOMAIN jobs : RunWorkflow(j)

SpecPair == InitPair /\ [][NextPair]_vars
\* the failing runs a task is given room for when its runs keep failing
MaxRepeats == 2

\* the stored request of the triggering event does not parse
MalformedRequestScenario ==
    [wellformed |-> TRUE, chained |-> TRUE, request |-> "malformed"]

\* one task whose runs may fail again and again: recorded by the old version
\* (so that the run looks up the merchant account, fetches the resource and
\* renders the request) or with a stored request that does not parse
InitRepeated ==
    /\ config = NoConfig
    /\ \E sc \in {LegacyScenario, MalformedRequestScenario} :
          /\ InitRows({1}, [k \in {1} |-> sc])
          /\ faults = [k \in {1} |-> MaxFaults - MaxRepeats]
    /\ r_in = IdleResolver
    /\ r_out = [done |-> FALSE, time |-> None]

SpecRepeated == InitRepeated /\ [][Next]_vars

\* one task under a short schedule, with the consumer picking the task up
\* again and again as long as it is due
InitFair ==
    /\ config \in {NoConfig,
                   [kind |-> "Value", wellformed |-> TRUE, mapping |-> ShortMapping]}
    /\ \E j \in Jobs : \E sc \in {CurrentScenario, LegacyScenario} :
          /\ InitRows({j}, [k \in {j} |-> sc])
          \* one run of the task may fail
          /\ faults = [k \in {j} |-> MaxFaults - 1]
    /\ r_in = IdleResolver
    /\ r_out = [done |-> FALSE, time |-> None]

\* the consumer can run the task: it is pending, and a run of it can return
\* Ok or may still fail; this is ENABLED RunWorkflow(j)
Due(j) ==
    /\ j \in DOMAIN jobs
    /\ jobs[j].status = "Pending"
    /\ \/ faults[j] < MaxFaults
       \/ execute_workflow(jobs[j], [fail |-> "none", transport |-> "success"]).ok

\* a step that is a run of job j; every run spends a fault or mints an event id
RunStepOf(j) ==
    /\ <<last, faults, nextEventId>>' /= <<last, faults, nextEventId>>
    /\ last'.job = j

\* weak fairness of the runs of each task, WF_vars(RunWorkflow(j)), written
\* out as "infinitely often not due or infinitely often run"
Fairness == \A j \in Jobs : []<>(~Due(j)) \/ []<><<RunStepOf(j)>>_vars

SpecFair == InitFair /\ [][Next]_vars /\ Fairness

\* the worker dies in the middle of a run: what the run stored stays, nothing
\* is returned and no handler runs; the row is left for the stale-claim sweep
\* of the job store, which makes it due again as it was
CrashedRun(j) ==
    /\ jobs[j].status = "Pending"
    /\ faults[j] < MaxFaults
    /\ \E process \in {jobs[j]} :
       \E point \in CrashPoints :
       \E run \in {execute_workflow(process, [fail |-> point,
                                              transport |-> "success"])} :
          /\ run.err = "crashed"
          /\ events' = run.events
          /\ now' = run.now
          /\ nextEventId' = nextEventId + 1
          /\ faults' = [faults EXCEPT ![j] = @ + 1]
          /\ crashed' = [job |-> j,
                         env |-> [fail |-> point, transport |-> "success"],
                         before |-> process, after |-> process,
                         status |-> resource[JobSubject[j].primary_object_id],
                         ok |-> FALSE, err |-> run.err, calls |-> run.calls,
                         at |-> run.now]
          /\ last' = NoRun
    /\ UNCHANGED <<jobs, config, resource, reschedules, exec, r_in, r_out, customerVars>>

InitCrash ==
    /\ config = NoConfig
    /\ \E sc \in {CurrentScenario, LegacyScenario} : InitTables({1}, [k \in {1} |-> sc])
    /\ r_in = IdleResolver
    /\ r_out = [done |-> FALSE, time |-> None]

NextCrash ==
    \/ \E j \in DOMAIN jobs : RunWorkflow(j)
    \/ \E j \in DOMAIN jobs : ResourceStatusChange(j)
    \/ \E j \in DOMAIN jobs : CrashedRun(j)

SpecCrash == InitCrash /\ [][NextCrash]_vars

(***************************************************************************)
(* Runs of different tasks going on at the same time.  A run is cut at its  *)
(* accesses to the events table: resolving the triggering event, storing    *)
(* the event of the run, and delivering (or finishing); between two steps   *)
(* of one run the other runs may take any of theirs.                        *)
(***************************************************************************)
\* the workflow up to the lookup of the triggering event; found holds what
\* the rest of the run works with
resolve_triggering_event(w0, process, env) ==
    LET parsed == parse_tracking_data(process.tracking_data)
    IN IF ~parsed.ok THEN [w |-> Fail(w0, parsed.err), found |-> None]
       ELSE
       LET tracking_data == Unwrap(parsed.val)
           w1 == Call(w0, "get_merchant_key_store_by_merchant_id",
                      tracking_data.merchant_id)
           w2 == Call(w1, "find_business_profile_by_profile_id",
                      tracking_data.business_profile_id)
           business_profile == BusinessProfiles[tracking_data.business_profile_id]
           event_id == generate_event_id
           idempotent_event_id ==
               get_idempotent_event_id(tracking_data.primary_object_id,
                                       tracking_data.event_type, AutomaticRetry)
           lookup_id == lookup_event_id(tracking_data)
           w3 == Call(Call(w2, "generate_event_id", event_id),
                      "find_event_by_merchant_id_event_id", lookup_id)
           initial_event == find_event_by_merchant_id_event_id(
                                w0.events, business_profile.merchant_id, lookup_id)
       IN IF env.fail = "key_store"
          THEN [w |-> Fail(w1, "ValueNotFound"), found |-> None]
          ELSE IF env.fail = "business_profile"
          THEN [w |-> Fail(w2, "ValueNotFound"), found |-> None]
          ELSE IF env.fail = "find_event"
          THEN [w |-> Fail(w3, "DatabaseError"), found |-> None]
          ELSE IF ~initial_event.ok
          THEN [w |-> Fail(w3, initial_event.err), found |-> None]
          ELSE [w |-> w3,
                found |-> Some([tracking_data |-> tracking_data,
                                business_profile |-> business_profile,
                                initial_event |-> Unwrap(initial_event.val),
                                event_id |-> event_id,
                                idempotent_event_id |-> idempotent_event_id])]

\* mutation: the event to deliver is read back as the row stored last
deliver_latest_event(w, process, tracking_data, business_profile, event, env) ==
    deliver_or_finish(w, process, tracking_data, business_profile,
                      w.events[Len(w.events)], env)

\* the event returned by insert_event is the one that is delivered
deliver_inserted_event(w, process, tracking_data, business_profile, event, env) ==
    deliver_or_finish(w, process, tracking_data, business_profile, event, env)

\* the world of a run in flight, looking at the tables as they are now
Resume(j) == [exec[j].w EXCEPT !.events = events, !.now = now]

\* the run of job j returns: a failed run goes to error_handler
Returned(j, run) ==
    LET w == IF run.ok THEN run ELSE error_handler(run, exec[j].before, run.err)
    IN /\ jobs' = [jobs EXCEPT ![j] = w.job]
       /\ events' = w.events
       /\ exec' = [exec EXCEPT ![j] = [@ EXCEPT !.pc = "idle", !.done = TRUE,
                                                !.w = w]]

\* the consumer claims the due task and the run resolves its triggering
\* event; ref is the same run taken in one piece from here
BeginExecution(j) ==
    /\ jobs[j].status = "Pending"
    /\ exec[j].pc = "idle"
    /\ \E process \in {jobs[j]} :
       \E smooth \in {execute_workflow(process, [fail |-> "none",
                                                 transport |-> "success"])} :
       \E env \in {e \in Envs : EnvObserved(smooth, e)} :
       \E alone \in {execute_workflow(process, env)} :
       \E ref \in {IF alone.ok THEN alone
                   ELSE error_handler(alone, process, alone.err)} :
       \E r \in {resolve_triggering_event(World(process), process, env)} :
          LET faulty == env.fail /= "none" \/ ~ref.ok
              w == IF r.w.ok THEN r.w ELSE error_handler(r.w, process, r.w.err)
          IN /\ faulty => faults[j] < MaxFaults
             /\ faults' = [faults EXCEPT ![j] = IF faulty THEN @ + 1 ELSE @]
             /\ now' = w.now
             /\ nextEventId' =
                    IF \E i \in 1..Len(w.calls) : w.calls[i].op = "generate_event_id"
                    THEN nextEventId + 1 ELSE nextEventId
             /\ exec' = [exec EXCEPT ![j] =
                            [pc |-> IF r.w.ok THEN "resolved" ELSE "idle",
                             done |-> ~r.w.ok, env |-> env, before |-> process,
                             w |-> w, locals |-> r.found, ref |-> ref]]
    /\ UNCHANGED <<jobs, events, config, resource, reschedules, last, crashed,
                   r_in, r_out, customerVars>>

\* the run stores its event
MintEvent(j) ==
    /\ exec[j].pc = "resolved"
    /\ \E l \in {Unwrap(exec[j].locals)} :
       \E new_event \in {new_event_of(l.initial_event, l.business_profile,
                                      l.event_id, l.idempotent_event_id, now)} :
       \E w \in {insert_event(Resume(j), new_event, exec[j].env)} :
          IF w.ok
          THEN /\ events' = w.events
               /\ exec' = [exec EXCEPT ![j] =
                              [@ EXCEPT !.pc = "minted", !.w = w,
                                        !.locals = Some([l EXCEPT !.initial_event =
                                                                      new_event])]]
               /\ UNCHANGED jobs
          ELSE Returned(j, w)
    /\ UNCHANGED <<config, resource, now, nextEventId, faults, reschedules,
                   last, crashed, r_in, r_out, customerVars>>

\* the run delivers its event, or finishes the task, and returns
DeliverEvent(j) ==
    /\ exec[j].pc = "minted"
    /\ \E l \in {Unwrap(exec[j].locals)} :
       \E w \in {deliver_inserted_event(Resume(j), exec[j].before, l.tracking_data,
                                        l.business_profile, l.initial_event,
                                        exec[j].env)} :
          Returned(j, w)
    /\ UNCHANGED <<config, resource, now, nextEventId, faults, reschedules,
                   last, crashed, r_in, r_out, customerVars>>

\* the resource of a task recorded by the old version has moved on by the
\* time the retries start
ResourceStatusChangeBeforeRuns(j) ==
    /\ nextEventId = 1
    /\ \A k \in DOMAIN jobs : exec[k] = NoExecution
    /\ ~IsSome(jobs[j].tracking_data.initial_attempt_id)
    /\ resource[JobSubject[j].primary_object_id] = JobSubject[j].status
    /\ ResourceStatusChange(j)

\* one retry after 60 seconds, then the schedule is exhausted
SingleRetryMapping ==
    [default_mapping |-> RetryMapping(60, <<>>, <<>>),
     custom_merchant_mapping |-> [m1 |-> None, m2 |-> None]]

InitInterleaved ==
    /\ config = [kind |-> "Value", wellformed |-> TRUE,
                 mapping |-> SingleRetryMapping]
    /\ InitRows({1, 2}, [k \in {1, 2} |->
                             IF k = 1 THEN CurrentScenario ELSE LegacyScenario])
    \* one run of one of the two tasks may fail
    /\ \E j \in {1, 2} : faults = [k \in {1, 2} |-> IF k = j THEN MaxFaults - 1
                                                     ELSE MaxFaults]
    /\ r_in = IdleResolver
    /\ r_out = [done |-> FALSE, time |-> None]

NextInterleaved ==
    \/ \E j \in DOMAIN jobs : BeginExecution(j)
    \/ \E j \in DOMAIN jobs : MintEvent(j)
    \/ \E j \in DOMAIN jobs : DeliverEvent(j)
    \/ \E j \in DOMAIN jobs : ResourceStatusChangeBeforeRuns(j)

SpecInterleaved == InitInterleaved /\ [][NextInterleaved]_vars

(***************************************************************************)
(* Resolver harness: get_webhook_delivery_retry_schedule_time applied to a  *)
(* drawn configuration, merchant and attempt number                        *)
(***************************************************************************)
SeqsUpTo(S, n) == UNION {[1..k -> S] : k \in 0..n}

DrawnRetryMappings ==
    {RetryMapping(sa, f, c) :
        sa \in {30, 60},
        f \in SeqsUpTo({120, 300}, MaxPairs),
        c \in SeqsUpTo(0..MaxCount, MaxPairs)}

ParallelRetryMappings ==
    {rm \in DrawnRetryMappings : Len(rm.frequency) = Len(rm.count)}
        \cup {DocumentedMapping.default_mapping, TwoStepMapping.default_mapping}

DrawnOverrides == {None, Some(RetryMapping(10, <<50>>, <<1>>))}

DrawnConfigs ==
    {c \in ConfigStates : c.kind /= "Value" \/ ~c.wellformed}
      \cup {[kind |-> "Value", wellformed |-> TRUE,
             mapping |-> [default_mapping |-> rm,
                          custom_merchant_mapping |-> [m1 |-> o1, m2 |-> o2]]] :
               rm \in ParallelRetryMappings, o1 \in DrawnOverrides,
               o2 \in DrawnOverrides}

InitResolver ==
    /\ config \in DrawnConfigs
    /\ r_in \in [merchant_id : {"m1", "m2"}, retry_count : 1..MaxAttempt]
    /\ r_out = [done |-> FALSE, time |-> None]
    /\ InitOrchestrator

ResolveAttempt ==
    /\ ~r_out.done
    /\ r_out' = [done |-> TRUE,
                 time |-> get_webhook_delivery_retry_schedule_time(
                              r_in.merchant_id, r_in.retry_count, now)]
    /\ UNCHANGED <<orchestratorVars, customerVars, r_in>>

NextResolver == ResolveAttempt

SpecResolver == InitResolver /\ [][NextResolver]_vars

\* the resolver called again and again for one merchant and attempt number,
\* while the clock moves and the task is run in between; r_out keeps, per
\* call, the delay returned, the clock and the size of the events table
MaxResolves == 3

ClockStep == 45

ResolveAgain ==
    /\ Len(r_out.delays) < MaxResolves
    /\ \E time \in {get_webhook_delivery_retry_schedule_time(
                        r_in.merchant_id, r_in.retry_count, now)} :
          r_out' = [done |-> TRUE, time |-> time,
                    delays |-> Append(r_out.delays,
                                      IF IsSome(time) THEN Some(Unwrap(time) - now)
                                      ELSE None),
                    ats |-> Append(r_out.ats, now),
                    rows |-> Append(r_out.rows, Len(events))]
    /\ UNCHANGED <<orchestratorVars, customerVars, r_in>>

ClockTick ==
    /\ now < ClockStep
    /\ now' = now + ClockStep
    /\ UNCHANGED <<jobs, events, config, resource, nextEventId, faults,
                   reschedules, last, crashed, exec, r_in, r_out, customerVars>>

\* the first retry of the task, delivered
RunBetweenResolves ==
    /\ jobs[1].retry_count = 0
    /\ RunWorkflow(1)
    /\ last'.env = [fail |-> "none", transport |-> "success"]

InitPurity ==
    /\ config \in ConfigStates
    /\ r_in \in [merchant_id : {"m1", "m2"}, retry_count : 1..MaxAttempt]
    /\ r_out = [done |-> FALSE, time |-> None, delays |-> <<>>, ats |-> <<>>,
                rows |-> <<>>]
    /\ InitOrchestrator

NextPurity ==
    \/ ResolveAgain
    \/ ClockTick
    \/ RunBetweenResolves

SpecPurity == InitPurity /\ [][NextPurity]_vars

(***************************************************************************)
(* The resolver under configurations that differ in the entries other      *)
(* merchants have in custom_merchant_mapping                               *)
(***************************************************************************)
IsolationOverrides ==
    {None, Some(RetryMapping(10, <<50>>, <<1>>)),
     Some(RetryMapping(5, <<20, 40>>, <<3, 3>>))}

IsolationConfigs ==
    {c \in ConfigStates : c.kind /= "Value" \/ ~c.wellformed}
      \cup {[kind |-> "Value", wellformed |-> TRUE,
             mapping |-> [default_mapping |-> rm,
                          custom_merchant_mapping |-> [m1 |-> o1, m2 |-> o2]]] :
               rm \in {DocumentedMapping.default_mapping,
                       TwoStepMapping.default_mapping},
               o1 \in IsolationOverrides, o2 \in IsolationOverrides}

\* the first attempt number for which the resolver has no schedule time for
\* the merchant, 0 when there is none up to MaxAttempt
ExhaustionPoint(merchant_id) ==
    LET exhausted == {n \in 1..MaxAttempt :
                         get_webhook_delivery_retry_schedule_time(
                             merchant_id, n, now) = None}
    IN IF exhausted = {} THEN 0
       ELSE CHOOSE n \in exhausted : \A k \in exhausted : n <= k

\* the resolver called for the merchant and attempt number of r_in; r_out
\* keeps, per call, the delay, the exhaustion point and the configuration
ResolveForMerchant ==
    /\ Len(r_out.delays) < MaxResolves
    /\ \E time \in {get_webhook_delivery_retry_schedule_time(
                        r_in.merchant_id, r_in.retry_count, now)} :
          r_out' = [done |-> TRUE, time |-> time,
                    delays |-> Append(r_out.delays,
                                      IF IsSome(time) THEN Some(Unwrap(time) - now)
                                      ELSE None),
                    points |-> Append(r_out.points,
                                      ExhaustionPoint(r_in.merchant_id)),
                    configs |-> Append(r_out.configs, config)]
    /\ UNCHANGED <<orchestratorVars, customerVars, r_in>>

\* an operator edits the entry of another merchant in the stored value
OtherMerchantOverrideChange ==
    /\ config.kind = "Value"
    /\ \E m \in DOMAIN config.mapping.custom_merchant_mapping :
       \E o \in IsolationOverrides :
          /\ m /= r_in.merchant_id
          /\ o /= config.mapping.custom_merchant_mapping[m]
          /\ config' = [config EXCEPT !.mapping.custom_merchant_mapping[m] = o]
    /\ UNCHANGED <<jobs, events, resource, now, nextEventId, faults,
                   reschedules, last, crashed, exec, r_in, r_out, customerVars>>

InitIsolation ==
    /\ config \in IsolationConfigs
    /\ r_in \in [merchant_id : {"m1", "m2"}, retry_count : 1..MaxAttempt]
    /\ r_out = [done |-> FALSE, time |-> None, delays |-> <<>>, points |-> <<>>,
                configs |-> <<>>]
    /\ InitOrchestrator

NextIsolation ==
    \/ ResolveForMerchant
    \/ OtherMerchantOverrideChange

SpecIsolation == InitIsolation /\ [][NextIsolation]_vars

(***************************************************************************)
(* Conversion harness: CustomerUpdateInternal::from applied to a drawn     *)
(* CustomerUpdate                                                          *)
(***************************************************************************)
\* Option<Encryptable<..>>: the decrypted value and its encrypted form
DrawnEncryptable(field) ==
    {None, Some([inner |-> field, encrypted |-> "enc_" \o field])}

DrawnOption(v) == {None, Some(v)}

\* the CustomerUpdate values of the v1 build
CustomerUpdatesV1 ==
    [version : {"v1"}, variant : {"Update"},
     name : DrawnEncryptable("name"), email : DrawnEncryptable("email"),
     phone : DrawnEncryptable("phone"), description : DrawnOption("desc"),
     phone_country_code : DrawnOption("+1"), metadata : DrawnOption("meta"),
     connector_customer : DrawnOption("cc"), address_id : DrawnOption("add_1")]
      \cup [version : {"v1"}, variant : {"ConnectorCustomer"},
            connector_customer : DrawnOption("cc")]
      \cup [version : {"v1"}, variant : {"UpdateDefaultPaymentMethod"},
            default_payment_method_id : {None, Some(None), Some(Some("pm_1"))}]

\* the CustomerUpdate values of the v2 build
CustomerUpdatesV2 ==
    [version : {"v2"}, variant : {"Update"},
     name : DrawnEncryptable("name"), email : DrawnEncryptable("email"),
     phone : DrawnEncryptable("phone"), description : DrawnOption("desc"),
     phone_country_code : DrawnOption("+1"), metadata : DrawnOption("meta"),
     connector_customer : DrawnOption("cc"),
     default_billing_address : DrawnOption("enc_billing"),
     default_shipping_address : DrawnOption("enc_shipping"),
     default_payment_method_id : {None, Some(None), Some(Some("pm_1"))},
     status : DrawnOption("Redacted")]
      \cup [version : {"v2"}, variant : {"ConnectorCustomer"},
            connector_customer : DrawnOption("cc")]
      \cup [version : {"v2"}, variant : {"UpdateDefaultPaymentMethod"},
            default_payment_method_id : {None, Some(None), Some(Some("pm_1"))}]

\* CustomerUpdateInternal::from(customer_update), once
ConvertCustomerUpdate ==
    /\ customer_update_internal = None
    /\ customer_update_internal' =
           Some(customer_update_internal_from(customer_update, now))
    /\ UNCHANGED <<orchestratorVars, resolverVars, customer_update>>

InitCustomer ==
    /\ config = NoConfig
    /\ r_in = IdleResolver
    /\ r_out = [done |-> FALSE, time |-> None]
    /\ \E update \in CustomerUpdatesV1 \cup CustomerUpdatesV2 :
          /\ jobs = [j \in {1} |-> InitialProcess(1, CurrentScenario)]
          /\ events = <<InitialEvent(1, CurrentScenario)>>
          /\ resource = [pay_1 |-> "succeeded"]
          /\ now = 0
          /\ nextEventId = 1
          /\ faults = [j \in {1} |-> 0]
          /\ reschedules = [j \in {1} |-> <<>>]
          /\ last = NoRun
          /\ crashed = NoRun
          /\ exec = [j \in {1} |-> NoExecution]
          /\ customer_update = update
          /\ customer_update_internal = None

NextCustomer ==
    \/ ConvertCustomerUpdate
    \/ ClockTick

SpecCustomer == InitCustomer /\ [][NextCustomer]_vars

(***************************************************************************)
(* Observations on the most recent run                                     *)
(***************************************************************************)
Ran == last.job /= 0

CallIdx(op) == {i \in 1..Len(last.calls) : last.calls[i].op = op}

Called(op) == CallIdx(op) /= {}

TheCall(op) == last.calls[CHOOSE i \in CallIdx(op) : TRUE]

TrackingData == last.before.tracking_data

RetrieveCalls ==
    UNION {CallIdx(op) : op \in {"payments_core", "refund_retrieve_core_with_refund_id",
                                 "retrieve_dispute", "get_mandate",
                                 "make_payout_data"}}

StoreDecisions ==
    CallIdx("retry_process") \cup CallIdx("finish_process_with_business_status")

StoreAccepted == last.env.fail /= "process_store"

\* the event the run resolved through the events table
TriggeringEvent ==
    events[CHOOSE i \in 1..Len(events) :
               events[i].event_id = TheCall("find_event_by_merchant_id_event_id").arg]

\* the run stored its own event
EventMinted == Ran /\ Called("insert_event") /\ last.env.fail /= "insert_event"

\* the run obtained the current state of the resource from the fetcher
Fetched ==
    /\ EventMinted
    /\ RetrieveCalls /= {}
    /\ last.env.fail \notin {"fetch_error", "fetch_non_content"}

FetchedEventType == StatusToEventType(TrackingData.event_class, last.status)

\* reconciliation path, and the resource is no longer in the recorded state
MismatchRun ==
    /\ Fetched
    /\ ~IsSome(TriggeringEvent.request)
    /\ FetchedEventType /= Some(TrackingData.event_type)

\* C1: a run on the reconciliation path that fetches a current event type
\* different from tracking_data.event_type never invokes the delivery
\* transport and finishes the task with RESOURCE_STATUS_MISMATCH: its only
\* process-store call is finish_process_with_business_status with that tag,
\* which leaves the row finished with that business status (when the store
\* rejects the call the run fails and the row is as it was).
C1_MismatchAborts ==
    MismatchRun =>
        /\ ~Called("trigger_webhook_and_raise_event")
        /\ ~Called("send")
        /\ CallIdx("retry_process") = {}
        /\ Cardinality(CallIdx("finish_process_with_business_status")) = 1
        /\ TheCall("finish_process_with_business_status").arg = RESOURCE_STATUS_MISMATCH
        /\ IF StoreAccepted
           THEN /\ last.ok
                /\ last.after = [last.before EXCEPT
                                    !.status = "Finish",
                                    !.business_status = RESOURCE_STATUS_MISMATCH]
           ELSE ~last.ok /\ last.after = last.before

C1_Witness ==
    /\ MismatchRun
    /\ FetchedEventType = Some("PaymentFailed")
    /\ last.after.business_status = RESOURCE_STATUS_MISMATCH

\* C2: a run that finds the resource status changed does not consult the
\* retry schedule and does not reschedule the task, whatever its retry_count
\* and remaining schedule; and a task finished with RESOURCE_STATUS_MISMATCH
\* is never run or rescheduled again.
C2_MismatchIsFinal ==
    /\ [](MismatchRun =>
             /\ ~Called("get_webhook_delivery_retry_schedule_time")
             /\ ~Called("retry_process")
             /\ last.after.retry_count = last.before.retry_count
             /\ last.after.schedule_time = last.before.schedule_time)
    /\ [][\A j \in DOMAIN jobs :
             jobs[j].business_status = RESOURCE_STATUS_MISMATCH =>
                 /\ jobs'[j] = jobs[j]
                 /\ reschedules'[j] = reschedules[j]
                 /\ last' = last \/ last'.job /= j]_vars

C2_Witness ==
    /\ MismatchRun
    /\ last.before.retry_count >= 2
    /\ IsSome(get_outgoing_webhook_retry_schedule_time(
                  load_mapping, TrackingData.merchant_id,
                  last.before.retry_count + 1))
    /\ jobs[last.job].business_status = RESOURCE_STATUS_MISMATCH

\* the resolved event carries a stored request and the run stored its event
ReplayRun == EventMinted /\ IsSome(TriggeringEvent.request)

StoredRequest == Unwrap(TriggeringEvent.request)

\* C3: when the resolved triggering event has a stored request, what is
\* handed to the delivery transport is exactly the stored request content
\* (body and headers), once, and neither the Resource State Fetcher nor the
\* status comparison takes part in the run.
C3_ReplayFidelity ==
    ReplayRun =>
        /\ \A i \in CallIdx("trigger_webhook_and_raise_event") :
              /\ last.calls[i].arg.request_content.body = StoredRequest[2]
              /\ last.calls[i].arg.request_content.headers = StoredRequest[4]
              /\ last.calls[i].arg.content = None
        /\ \A i \in CallIdx("send") :
              /\ last.calls[i].arg.body = StoredRequest[2]
              /\ last.calls[i].arg.headers = StoredRequest[4]
        /\ (StoredRequest[1] = "body" /\ StoredRequest[3] = "headers") =>
              /\ Cardinality(CallIdx("send")) = 1
              /\ Cardinality(CallIdx("trigger_webhook_and_raise_event")) = 1
        /\ RetrieveCalls = {}
        /\ ~Called("find_merchant_account_by_merchant_id")
        /\ ~Called("get_outgoing_webhook_request")
        /\ \A i \in CallIdx("finish_process_with_business_status") :
              last.calls[i].arg /= RESOURCE_STATUS_MISMATCH

C3_Witness ==
    /\ ReplayRun
    /\ Called("send")
    /\ TheCall("send").arg.body = StoredRequest[2]
    /\ last.status /= "succeeded"
    /\ last.before.retry_count >= 1

(***************************************************************************)
(* The retry schedule as the documentation states it                       *)
(***************************************************************************)
\* attempt 1 waits start_after; attempt n > 1 waits frequency[i] for the
\* smallest i with n - 1 <= count[1] + .. + count[i]; no such i: exhausted
StepDelay(retry_mapping, n) ==
    LET reached == {i \in 1..Len(retry_mapping.count) :
                       n - 1 <= SumSeq(SubSeq(retry_mapping.count, 1, i))}
    IN IF n = 1 THEN Some(retry_mapping.start_after)
       ELSE IF reached = {} THEN None
       ELSE Some(retry_mapping.frequency[
                     CHOOSE i \in reached : \A k \in reached : i <= k])

AtDelay(at, delay) == IF IsSome(delay) THEN Some(at + Unwrap(delay)) ELSE None

ConfigReadable == config.kind = "Value" /\ config.wellformed

ConfigMalformed == config.kind = "Value" /\ ~config.wellformed

\* the mapping of a merchant under a readable configuration
ConfiguredMapping(merchant_id) ==
    IF IsSome(config.mapping.custom_merchant_mapping[merchant_id])
    THEN Unwrap(config.mapping.custom_merchant_mapping[merchant_id])
    ELSE config.mapping.default_mapping

\* C4: for every mapping and 1-based attempt number n the resolver returns
\* start_after for n = 1, frequency[i] for the smallest i with
\* n - 1 <= count[0] + .. + count[i] for n > 1, and None once n - 1 exceeds
\* the sum of all counts; for {start_after: 60, frequency: [300], count: [5]}
\* that is 60 at attempt 1, 300 at attempts 2 to 6 and None at attempt 7.
C4_StepFunction ==
    (r_out.done /\ ConfigReadable) =>
        LET rm == ConfiguredMapping(r_in.merchant_id)
            n == r_in.retry_count
        IN /\ r_out.time = AtDelay(now, StepDelay(rm, n))
           /\ n = 1 => r_out.time = Some(now + rm.start_after)
           /\ (n > 1 /\ n - 1 > SumSeq(rm.count)) => r_out.time = None
           /\ rm = RetryMapping(60, <<300>>, <<5>>) =>
                 r_out.time = CASE n = 1 -> Some(now + 60)
                                [] n \in 2..6 -> Some(now + 300)
                                [] OTHER -> None

C4_Witness ==
    /\ r_out.done
    /\ ConfigReadable
    /\ ConfiguredMapping(r_in.merchant_id) = RetryMapping(60, <<300>>, <<5>>)
    /\ r_in.retry_count = 7
    /\ r_out.time = None

\* the run went through retry_webhook_delivery_task
RetryTaskRun == Ran /\ Called("get_webhook_delivery_retry_schedule_time")

ResolvedScheduleTime ==
    TheCall("get_webhook_delivery_retry_schedule_time").arg.schedule_time

\* C5: in retry_webhook_delivery_task, an exhausted schedule finishes the
\* task with RETRIES_EXCEEDED without rescheduling it; a schedule time
\* reschedules the task at that time and writes no business status.
C5_RescheduleOrExhaust ==
    RetryTaskRun =>
        /\ Cardinality(CallIdx("get_webhook_delivery_retry_schedule_time")) = 1
        /\ IF IsSome(ResolvedScheduleTime)
           THEN /\ Cardinality(CallIdx("retry_process")) = 1
                /\ TheCall("retry_process").arg = Unwrap(ResolvedScheduleTime)
                /\ ~Called("finish_process_with_business_status")
                /\ StoreAccepted =>
                      last.after = [last.before EXCEPT
                                       !.retry_count = @ + 1,
                                       !.schedule_time = Unwrap(ResolvedScheduleTime)]
           ELSE /\ Cardinality(CallIdx("finish_process_with_business_status")) = 1
                /\ TheCall("finish_process_with_business_status").arg = RETRIES_EXCEEDED
                /\ ~Called("retry_process")
                /\ StoreAccepted =>
                      last.after = [last.before EXCEPT
                                       !.status = "Finish",
                                       !.business_status = RETRIES_EXCEEDED]
        /\ ~StoreAccepted => last.after = last.before

C5_Witness ==
    /\ RetryTaskRun
    /\ ~IsSome(ResolvedScheduleTime)
    /\ last.before.retry_count >= 3
    /\ jobs[last.job].business_status = RETRIES_EXCEEDED
    /\ jobs[last.job].schedule_time = last.before.schedule_time

\* a run whose delivery attempt failed
FailedDelivery == Ran /\ Called("send") /\ last.env.transport = "failure"

\* C6: every failed delivery of a retry run leads to exactly one
\* reschedule-or-finish decision: one call among retry_process and
\* finish_process_with_business_status, never none and never two.
C6_ExactlyOneDecision ==
    FailedDelivery => Cardinality(StoreDecisions) = 1

C6_Witness ==
    /\ FailedDelivery
    /\ Cardinality(CallIdx("finish_process_with_business_status")) = 1
    /\ ~Called("retry_process")

TwoStepDelays == <<30, 120, 120, 120, 600, 600>>

\* C7: with default mapping {start_after: 30, frequency: [120, 600],
\* count: [3, 2]} and no merchant override, a task whose deliveries keep
\* failing is rescheduled after 30s at attempt 1, 120s at attempts 2 to 4,
\* 600s at attempts 5 and 6, and finished with RETRIES_EXCEEDED at
\* attempt 7: six reschedules over its whole life.
C7_TwoStepSchedule ==
    (ConfigReadable /\ config.mapping = TwoStepMapping) =>
        /\ \A j \in DOMAIN jobs :
              /\ Len(reschedules[j]) <= 6
              /\ reschedules[j] = SubSeq(TwoStepDelays, 1, Len(reschedules[j]))
              /\ jobs[j].retry_count = Len(reschedules[j])
              /\ jobs[j].business_status = RETRIES_EXCEEDED =>
                    reschedules[j] = TwoStepDelays
        /\ (FailedDelivery /\ StoreAccepted) =>
              IF last.before.retry_count < 6
              THEN /\ last.after.status = "Pending"
                   /\ last.after.retry_count = last.before.retry_count + 1
                   /\ last.after.schedule_time =
                          last.at + TwoStepDelays[last.before.retry_count + 1]
              ELSE /\ last.after.status = "Finish"
                   /\ last.after.business_status = RETRIES_EXCEEDED

C7_Witness ==
    /\ ConfigReadable
    /\ config.mapping = TwoStepMapping
    /\ FailedDelivery
    /\ last.before.retry_count = 6
    /\ jobs[last.job].business_status = RETRIES_EXCEEDED
    /\ reschedules[last.job] = TwoStepDelays

\* C8: the resolver uses the merchant's entry of custom_merchant_mapping
\* when there is one, otherwise the configured default_mapping; when the
\* config key pt_mapping_outgoing_webhooks is not found it uses the built-in
\* default mapping.
C8_MappingSelection ==
    (RetryTaskRun /\ ~ConfigMalformed) =>
        LET merchant_id == TrackingData.merchant_id
            chosen ==
                IF config.kind = "NotFound"
                THEN DefaultProcessTrackerMapping.default_mapping
                ELSE IF IsSome(config.mapping.custom_merchant_mapping[merchant_id])
                THEN Unwrap(config.mapping.custom_merchant_mapping[merchant_id])
                ELSE config.mapping.default_mapping
        IN ResolvedScheduleTime =
               AtDelay(last.at, StepDelay(chosen, last.before.retry_count + 1))

C8_Witness ==
    /\ RetryTaskRun
    /\ ConfigReadable
    /\ TrackingData.merchant_id = "m2"
    /\ IsSome(config.mapping.custom_merchant_mapping["m2"])
    /\ last.before.retry_count = 0
    /\ ResolvedScheduleTime = Some(last.at + 30)

\* C9 as stated: a configuration value that fails to deserialize ends the run
\* as a DeserializationFailed failure handed to the error handler, and no
\* reschedule or finish decision is derived from it.
C9_MalformedConfigEscalated ==
    (RetryTaskRun /\ ConfigMalformed) =>
        /\ ~last.ok
        /\ last.err = "DeserializationFailed"
        /\ Called("consumer_error_handler")
        /\ StoreDecisions = {}

\* C9, amended: a configuration value that fails to deserialize is not
\* escalated; the run succeeds, the error handler is not invoked, and the
\* one reschedule-or-finish decision is taken from the built-in default
\* mapping.
C9_MalformedConfigFallsBack ==
    (RetryTaskRun /\ ConfigMalformed) =>
        /\ last.ok
        /\ ~Called("consumer_error_handler")
        /\ Cardinality(StoreDecisions) = 1
        /\ ResolvedScheduleTime =
               AtDelay(last.at,
                       StepDelay(DefaultProcessTrackerMapping.default_mapping,
                                 last.before.retry_count + 1))

C9_Witness ==
    /\ RetryTaskRun
    /\ ConfigMalformed
    /\ last.before.retry_count = 3
    /\ Called("retry_process")
    /\ jobs[last.job].retry_count = 4

\* the run got as far as resolving the triggering event
LookupReached ==
    /\ Ran
    /\ TrackingData.wellformed
    /\ last.env.fail \notin {"key_store", "business_profile"}

\* C10: the triggering event is looked up by tracking_data.initial_attempt_id
\* when it is present and by "{primary_object_id}_{event_type}" when it is
\* absent; a run performs one lookup, never both, and which one depends only
\* on the presence of initial_attempt_id.
C10_LookupKey ==
    Ran =>
        /\ Cardinality(CallIdx("find_event_by_merchant_id_event_id")) <= 1
        /\ LookupReached =>
              /\ Cardinality(CallIdx("find_event_by_merchant_id_event_id")) = 1
              /\ TheCall("find_event_by_merchant_id_event_id").arg =
                     IF IsSome(TrackingData.initial_attempt_id)
                     THEN Unwrap(TrackingData.initial_attempt_id)
                     ELSE JobSubject[last.job].legacy_event_id

C10_Witness ==
    /\ LookupReached
    /\ ~IsSome(TrackingData.initial_attempt_id)
    /\ TheCall("find_event_by_merchant_id_event_id").arg = "pay_1_payment_succeeded"
    /\ last.before.retry_count >= 1

(***************************************************************************)
(* Observations on the events table                                        *)
(***************************************************************************)
\* rows stored by runs of the retry workflow
MintedEvents ==
    {i \in 1..Len(events) : events[i].delivery_attempt = Some(AutomaticRetry)}

\* rows left by the initial attempt (of the current or of the old version)
InitialEvents == (1..Len(events)) \ MintedEvents

SameOccurrence(a, b) ==
    /\ a.primary_object_id = b.primary_object_id
    /\ a.event_type = b.event_type

\* C11: all events minted for a task carry one and the same
\* idempotent_event_id, whatever their event_id and the retry_count of the
\* run that stored them; it is the id derived from primary_object_id, the
\* event type and AutomaticRetry, and it differs from the idempotent id of
\* the initial attempt for the same resource and event type.
C11_IdempotentIdStable ==
    \A i \in MintedEvents :
        /\ IsSome(events[i].idempotent_event_id)
        /\ \A k \in MintedEvents :
              SameOccurrence(events[i], events[k]) =>
                  events[k].idempotent_event_id = events[i].idempotent_event_id
        /\ \A k \in InitialEvents :
              events[k].idempotent_event_id /= events[i].idempotent_event_id
        /\ \A j \in DOMAIN jobs :
              events[i].primary_object_id = JobSubject[j].primary_object_id =>
                  /\ Unwrap(events[i].idempotent_event_id) =
                         JobSubject[j].legacy_event_id \o "_AutomaticRetry"
                  /\ Unwrap(events[i].idempotent_event_id) /=
                         get_idempotent_event_id(
                             jobs[j].tracking_data.primary_object_id,
                             jobs[j].tracking_data.event_type, InitialAttempt)

C11_Witness ==
    /\ Cardinality(MintedEvents) >= 3
    /\ Ran
    /\ last.before.retry_count >= 2
    /\ \E k \in InitialEvents : IsSome(events[k].idempotent_event_id)
    /\ \E i, k \in MintedEvents :
          /\ events[i].event_id /= events[k].event_id
          /\ events[i].created_at /= events[k].created_at
          /\ events[i].idempotent_event_id = events[k].idempotent_event_id

\* C12: the event ids of the events table are pairwise distinct after any
\* sequence of runs of one task or of several: the id a run mints equals no
\* id stored before, those of earlier retries of the same task included.
C12_EventIdsDistinct ==
    /\ \A i, k \in 1..Len(events) :
          i /= k => events[i].event_id /= events[k].event_id
    /\ (Ran /\ Called("insert_event")) =>
          /\ TheCall("insert_event").arg = TheCall("generate_event_id").arg
          /\ EventMinted =>
                Cardinality({i \in 1..Len(events) :
                                events[i].event_id = TheCall("insert_event").arg}) = 1

C12_Witness ==
    /\ DOMAIN jobs = {1, 2}
    /\ \A j \in DOMAIN jobs :
          Cardinality({i \in MintedEvents :
                          events[i].primary_object_id =
                              JobSubject[j].primary_object_id}) >= 2
    /\ \A i, k \in 1..Len(events) :
          i /= k => events[i].event_id /= events[k].event_id

\* a step in which the workflow ran
RunStep == <<last, faults, nextEventId>>' /= <<last, faults, nextEventId>>

DeliveryCalls == CallIdx("trigger_webhook_and_raise_event") \cup CallIdx("send")

\* C13: in every run the delivery trigger and the transport are reached only
\* after the run's insert_event has succeeded; the run stores exactly one
\* event, the one handed to the trigger, and it grows the events table by
\* exactly that one row.
C13_MintBeforeDeliver ==
    /\ [](Ran =>
             /\ Cardinality(CallIdx("insert_event")) <= 1
             /\ \A i \in DeliveryCalls :
                   /\ last.env.fail /= "insert_event"
                   /\ \E k \in CallIdx("insert_event") : k < i
             /\ Called("trigger_webhook_and_raise_event") =>
                   /\ TheCall("trigger_webhook_and_raise_event").arg.event_id =
                          TheCall("insert_event").arg
                   /\ events[Len(events)].event_id = TheCall("insert_event").arg
                   /\ events[Len(events)].delivery_attempt = Some(AutomaticRetry))
    /\ [][(RunStep /\ \E i \in 1..Len(last'.calls) : last'.calls[i].op = "send") =>
             /\ Len(events') = Len(events) + 1
             /\ SubSeq(events', 1, Len(events)) = events]_vars

C13_Witness ==
    /\ Ran
    /\ Called("send")
    /\ last.env.transport = "failure"
    /\ \E k \in CallIdx("insert_event") : \A i \in DeliveryCalls : k < i
    /\ Len(events) >= 3

\* the run whose insert_event was rejected
InsertFailed == Ran /\ Called("insert_event") /\ last.env.fail = "insert_event"

\* C14: when insert_event fails the run fails with that error: the delivery
\* trigger and the transport are not invoked, the Resource State Fetcher is
\* not called, the task is neither rescheduled nor finished, and the events
\* table is as it was.
C14_InsertFailureFailsRun ==
    /\ [](InsertFailed =>
             /\ ~last.ok
             /\ last.err = "DatabaseError"
             /\ Called("consumer_error_handler")
             /\ DeliveryCalls = {}
             /\ RetrieveCalls = {}
             /\ ~Called("find_merchant_account_by_merchant_id")
             /\ StoreDecisions = {}
             /\ ~Called("get_webhook_delivery_retry_schedule_time")
             /\ last.after = last.before
             /\ \A i \in 1..Len(events) :
                   events[i].event_id /= TheCall("insert_event").arg)
    /\ [][(RunStep /\ last'.env.fail = "insert_event") => events' = events]_vars

C14_Witness ==
    /\ InsertFailed
    /\ last.before.retry_count >= 1
    /\ MintedEvents /= {}
    /\ jobs[last.job].status = "Pending"

\* the event a row refers to through initial_attempt_id
ReferredEvents(i) ==
    {k \in 1..Len(events) :
        /\ IsSome(events[i].initial_attempt_id)
        /\ events[k].event_id = Unwrap(events[i].initial_attempt_id)}

\* the end of the chain of initial_attempt_id references that starts at row i,
\* followed for at most fuel steps: the initial event reached, if any
RECURSIVE ChainEnd(_, _)
ChainEnd(i, fuel) ==
    IF i \in InitialEvents THEN Some(i)
    ELSE IF fuel = 0 \/ Cardinality(ReferredEvents(i)) /= 1 THEN None
    ELSE ChainEnd(CHOOSE k \in ReferredEvents(i) : TRUE, fuel - 1)

\* C15: every minted event refers, through initial_attempt_id, to the event
\* its run resolved; that event is in the events table, and following the
\* references from any minted event reaches one initial event without ever
\* coming back to an event already visited.
C15_ChainEndsAtInitialEvent ==
    /\ \A i \in MintedEvents :
          /\ IsSome(events[i].initial_attempt_id)
          /\ Cardinality(ReferredEvents(i)) = 1
          /\ i \notin ReferredEvents(i)
          /\ IsSome(ChainEnd(i, Len(events)))
          /\ ReferredEvents(i) \subseteq InitialEvents
    /\ EventMinted =>
          \E i \in MintedEvents :
             /\ events[i].event_id = TheCall("insert_event").arg
             /\ events[i].initial_attempt_id = Some(TriggeringEvent.event_id)
             /\ TriggeringEvent.event_id =
                    TheCall("find_event_by_merchant_id_event_id").arg

C15_Witness ==
    /\ EventMinted
    /\ Cardinality(MintedEvents) >= 3
    /\ \A i \in MintedEvents : ChainEnd(i, Len(events)) = Some(1)
    /\ ~IsSome(events[1].initial_attempt_id)

\* the run failed before it could store an event: tracking data, key store,
\* business profile or triggering event
EarlyFailure ==
    /\ Ran
    /\ \/ ~TrackingData.wellformed
       \/ last.env.fail \in {"key_store", "business_profile", "find_event"}
       \/ /\ Called("find_event_by_merchant_id_event_id")
          /\ \A i \in 1..Len(events) :
                events[i].event_id /= TheCall("find_event_by_merchant_id_event_id").arg

\* C16: a run in which parsing the tracking data, the key-store lookup, the
\* business-profile lookup or the lookup of the triggering event fails ends
\* as a failed execution handed to the error handler: it stores no event,
\* invokes no delivery, writes no business status and reschedules nothing.
C16_EarlyFailureIsFailedExecution ==
    /\ [](EarlyFailure =>
             /\ ~last.ok
             /\ Called("consumer_error_handler")
             /\ ~Called("insert_event")
             /\ DeliveryCalls = {}
             /\ RetrieveCalls = {}
             /\ StoreDecisions = {}
             /\ ~Called("get_webhook_delivery_retry_schedule_time")
             /\ last.after = last.before
             /\ last.err = CASE ~TrackingData.wellformed -> "DeserializationFailed"
                             [] last.env.fail = "find_event" -> "DatabaseError"
                             [] OTHER -> "ValueNotFound")
    /\ [][(RunStep /\ \A i \in 1..Len(last'.calls) :
                          last'.calls[i].op /= "insert_event") =>
             events' = events]_vars

C16_Witness ==
    /\ EarlyFailure
    /\ last.env.fail = "none"
    /\ TrackingData.wellformed
    /\ last.err = "ValueNotFound"
    /\ events = <<>>

(***************************************************************************)
(* The outcome of a run, read off the task row it leaves and its Result    *)
(***************************************************************************)
Rescheduled ==
    /\ last.ok
    /\ last.after.status = "Pending"
    /\ last.after.business_status = last.before.business_status
    /\ last.after.retry_count = last.before.retry_count + 1

FinishedWith(tag) ==
    /\ last.ok
    /\ last.after = [last.before EXCEPT !.status = "Finish", !.business_status = tag]

FinishedSuccess == FinishedWith(COMPLETED_BY_PT)

FinishedMismatch == FinishedWith(RESOURCE_STATUS_MISMATCH)

FinishedExhausted == FinishedWith(RETRIES_EXCEEDED)

FailedExecution ==
    /\ ~last.ok
    /\ last.after = last.before
    /\ Called("consumer_error_handler")

OutcomesOfRun ==
    {o \in {"Rescheduled", "FinishedSuccess", "FinishedMismatch",
            "FinishedExhausted", "FailedExecution"} :
        CASE o = "Rescheduled" -> Rescheduled
          [] o = "FinishedSuccess" -> FinishedSuccess
          [] o = "FinishedMismatch" -> FinishedMismatch
          [] o = "FinishedExhausted" -> FinishedExhausted
          [] OTHER -> FailedExecution}

\* the delivery trigger made its reschedule-or-finish call, the job store
\* rejected it, and the run returned Ok all the same
DecisionLost ==
    /\ Ran
    /\ Called("send")
    /\ ~StoreAccepted
    /\ Cardinality(StoreDecisions) = 1
    /\ last.ok
    /\ ~Called("consumer_error_handler")
    /\ last.after = last.before

TerminalTags == {COMPLETED_BY_PT, RESOURCE_STATUS_MISMATCH, RETRIES_EXCEEDED}

\* a task with a terminal business status stays as it is, is not run again,
\* and no task leaves the process tracker
TerminalIsFinal ==
    /\ DOMAIN jobs' = DOMAIN jobs
    /\ \A j \in DOMAIN jobs :
          jobs[j].business_status \in TerminalTags =>
              /\ jobs'[j] = jobs[j]
              /\ reschedules'[j] = reschedules[j]
              /\ faults'[j] = faults[j]
              /\ last' = last \/ last'.job /= j

\* C17 as stated: every run of a pending task ends in exactly one of
\* Rescheduled, FinishedSuccess, FinishedMismatch, FinishedExhausted and
\* FailedExecution; the finished states are terminal and no task is deleted.
C17_ExactlyOneOutcome ==
    /\ [](Ran => Cardinality(OutcomesOfRun) = 1)
    /\ [](\A j \in DOMAIN jobs :
             jobs[j].status = "Finish" <=> jobs[j].business_status \in TerminalTags)
    /\ [][TerminalIsFinal]_vars

\* C17, amended: every run of a pending task ends in exactly one of the five
\* outcomes, except a run whose reschedule-or-finish call is rejected by the
\* job store inside the delivery trigger: that run returns Ok, the error
\* handler is not invoked and the task stays pending as it was, which is none
\* of the five.  The finished states are terminal and no task is deleted.
C17_OneOutcomeOrDecisionLost ==
    /\ [](Ran => IF DecisionLost
                 THEN OutcomesOfRun = {}
                 ELSE Cardinality(OutcomesOfRun) = 1)
    /\ [](\A j \in DOMAIN jobs :
             jobs[j].status = "Finish" <=> jobs[j].business_status \in TerminalTags)
    /\ [][TerminalIsFinal]_vars

C17_Witness ==
    /\ DecisionLost
    /\ last.env.transport = "failure"
    /\ Called("retry_process")
    /\ jobs[last.job].status = "Pending"
    /\ jobs[last.job].retry_count = last.before.retry_count

\* the domain service answered the fetcher with a response without content
NonContentRun ==
    /\ Ran
    /\ RetrieveCalls /= {}
    /\ last.env.fail = "fetch_non_content"

\* C18: for every event class, when the domain service answers with a
\* response without content the fetcher returns ResourceFetchingFailed and
\* the run is a failed execution: nothing is delivered, the retry schedule is
\* not consulted, the task is neither rescheduled nor given a business
\* status, and the error goes to the error handler.
C18_NonContentIsFailedExecution ==
    NonContentRun =>
        /\ ~last.ok
        /\ last.err = "ResourceFetchingFailed"
        /\ Called("consumer_error_handler")
        /\ DeliveryCalls = {}
        /\ ~Called("get_outgoing_webhook_request")
        /\ ~Called("get_webhook_delivery_retry_schedule_time")
        /\ StoreDecisions = {}
        /\ last.after = last.before
        /\ jobs[last.job].business_status = Pending
        /\ Cardinality(RetrieveCalls) = 1
        /\ \A i \in RetrieveCalls :
              last.calls[i].op = RetrieveCall(TrackingData.event_class)

C18_Witness ==
    /\ NonContentRun
    /\ TrackingData.event_class = "Disputes"
    /\ last.err = "ResourceFetchingFailed"
    /\ last.before.retry_count = 0

\* C19: the fetcher only reads: whatever the event class, the request to the
\* domain service never asks for a forced sync (force_sync is false for
\* payments and refunds, the other services take no such option) and the
\* payment is retrieved with CallConnectorAction::Avoid; a run leaves the
\* status of every resource as it found it.
C19_FetcherReadOnly ==
    /\ [](Ran =>
             \A i \in RetrieveCalls :
                /\ last.calls[i].arg.force_sync \in {None, Some(FALSE)}
                /\ last.calls[i].arg.connector_action \in {None, Some("Avoid")}
                /\ last.calls[i].op = "payments_core" =>
                      /\ last.calls[i].arg.force_sync = Some(FALSE)
                      /\ last.calls[i].arg.connector_action = Some("Avoid")
                /\ last.calls[i].op = "refund_retrieve_core_with_refund_id" =>
                      last.calls[i].arg.force_sync = Some(FALSE)
                /\ last.calls[i].arg.id = TrackingData.primary_object_id)
    /\ [][RunStep => resource' = resource]_vars

C19_Witness ==
    /\ Ran
    /\ TrackingData.event_class = "Refunds"
    /\ \E i \in RetrieveCalls : last.calls[i].arg.force_sync = Some(FALSE)
    /\ last.ok
    /\ Called("send")

(***************************************************************************)
(* Runs that died, and their re-execution                                  *)
(***************************************************************************)
Crashed == crashed.job /= 0

\* the id of the event the crashed run had stored
CrashedEventId ==
    crashed.calls[CHOOSE i \in 1..Len(crashed.calls) :
                      crashed.calls[i].op = "insert_event"].arg

EventsWithId(id) == {i \in 1..Len(events) : events[i].event_id = id}

\* the most recent run is the re-execution, from the top, of the run that died
ReExecution ==
    /\ Crashed
    /\ last.job = crashed.job
    /\ last.before = crashed.before

\* C20: a run that dies after storing its event leaves the event in the table
\* and the task as it was; the re-execution from the top stores a second
\* event with another event_id and the same idempotent_event_id, and
\* delivers (again); no run removes or overwrites a row stored before it.
C20_CrashDuplicates ==
    /\ [](Crashed =>
             /\ crashed.after = crashed.before
             /\ \A i \in 1..Len(crashed.calls) :
                   crashed.calls[i].op \notin
                       {"retry_process", "finish_process_with_business_status",
                        "consumer_error_handler"}
             /\ Cardinality(EventsWithId(CrashedEventId)) = 1
             /\ \A i \in EventsWithId(CrashedEventId) :
                   /\ i \in MintedEvents
                   /\ ~events[i].is_webhook_notified)
    /\ []((ReExecution /\ EventMinted) =>
             /\ TheCall("insert_event").arg /= CrashedEventId
             /\ \A i \in EventsWithId(CrashedEventId) :
                \A k \in EventsWithId(TheCall("insert_event").arg) :
                   /\ i < k
                   /\ events[k].idempotent_event_id = events[i].idempotent_event_id
                   /\ events[k].initial_attempt_id = events[i].initial_attempt_id
             /\ Cardinality({i \in MintedEvents :
                                events[i].initial_attempt_id =
                                    Some(TriggeringEvent.event_id)}) >= 2)
    /\ [][/\ Len(events') >= Len(events)
          /\ SubSeq(events', 1, Len(events)) = events]_vars

C20_Witness ==
    /\ ReExecution
    /\ EventMinted
    /\ crashed.env.fail = "crash_after_send"
    /\ \E i \in 1..Len(crashed.calls) : crashed.calls[i].op = "send"
    /\ Called("send")
    /\ TheCall("insert_event").arg /= CrashedEventId
    /\ Cardinality({i \in MintedEvents :
                       events[i].idempotent_event_id =
                           events[Len(events)].idempotent_event_id}) = 2

(***************************************************************************)
(* Business outcomes and infrastructure failures                           *)
(***************************************************************************)
\* the finish calls of the run that carry one of the two tags
BusinessFinishCalls ==
    {i \in CallIdx("finish_process_with_business_status") :
        last.calls[i].arg \in {RESOURCE_STATUS_MISMATCH, RETRIES_EXCEEDED}}

\* C21: a run that finishes the task with RESOURCE_STATUS_MISMATCH or with
\* RETRIES_EXCEEDED returns Ok, provided the job store accepts the finish
\* call: the error handler is not invoked, and the task is left finished
\* with that business status.
C21_BusinessFinishIsSuccess ==
    (Ran /\ BusinessFinishCalls /= {} /\ StoreAccepted) =>
        /\ last.ok
        /\ last.err = "-"
        /\ ~Called("consumer_error_handler")
        /\ Cardinality(BusinessFinishCalls) = 1
        /\ \A i \in BusinessFinishCalls :
              /\ last.after.status = "Finish"
              /\ last.after.business_status = last.calls[i].arg
              /\ jobs[last.job].business_status = last.calls[i].arg

C21_Witness ==
    /\ Ran
    /\ StoreAccepted
    /\ \E i \in BusinessFinishCalls : last.calls[i].arg = RETRIES_EXCEEDED
    /\ last.env.transport = "failure"
    /\ last.ok
    /\ jobs[last.job].business_status = RETRIES_EXCEEDED

\* the rows the most recent run handed to insert_event
InsertedRows == {last.calls[i].row : i \in CallIdx("insert_event")}

\* C22: every row a run hands to insert_event has delivery_attempt
\* AutomaticRetry, is_webhook_notified false, no response and
\* is_overall_delivery_successful false; no step changes a row of an initial
\* attempt, and every row a step adds is an AutomaticRetry row; so there is
\* never more than one initial event for a primary_object_id and event type.
C22_OnlyRetryEventsInserted ==
    /\ [](Ran =>
             \A row \in InsertedRows :
                /\ row.delivery_attempt = Some(AutomaticRetry)
                /\ row.is_webhook_notified = FALSE
                /\ row.response = None
                /\ row.is_overall_delivery_successful = Some(FALSE))
    /\ [](\A i, k \in InitialEvents :
             SameOccurrence(events[i], events[k]) => i = k)
    /\ [][/\ Len(events') >= Len(events)
          /\ \A i \in InitialEvents : events'[i] = events[i]
          /\ \A i \in (Len(events) + 1)..Len(events') :
                events'[i].delivery_attempt = Some(AutomaticRetry)]_vars

C22_Witness ==
    /\ DOMAIN jobs = {1, 2}
    /\ Cardinality(InitialEvents) = 2
    /\ \A j \in DOMAIN jobs :
          \E i \in MintedEvents :
             events[i].primary_object_id = JobSubject[j].primary_object_id
    /\ \E i \in MintedEvents : events[i].is_webhook_notified
    /\ \E i \in MintedEvents : ~events[i].is_webhook_notified
    /\ InsertedRows /= {}

(***************************************************************************)
(* Runs of different tasks at the same time, against the run taken alone   *)
(***************************************************************************)
\* how a run ended, read off its Result and the task row it leaves
OutcomeOf(before, w) ==
    CASE ~w.ok -> "FailedExecution"
      [] w.job.status = "Finish" -> w.job.business_status
      [] w.job.retry_count = before.retry_count + 1 -> "Rescheduled"
      [] OTHER -> "Undecided"

\* the task row the run leaves; a schedule time the run has set is taken
\* relative to the clock of the run
RowRelative(before, w) ==
    [row |-> [w.job EXCEPT !.schedule_time = 0],
     delay |-> IF w.job.schedule_time = before.schedule_time THEN None
               ELSE Some(w.job.schedule_time - w.now)]

\* a request without the id and the timestamp of the event it announces
MaskedRequest(request_content) ==
    [body |-> <<request_content.body[1], request_content.body[3],
                request_content.body[4]>>,
     headers |-> request_content.headers]

\* what the run handed to the transport, in order
Payloads(w) ==
    LET sent == SelectSeq(w.calls, LAMBDA c : c.op = "send")
    IN [i \in 1..Len(sent) |-> MaskedRequest(sent[i].arg)]

MaskedEvent(row) == [row EXCEPT !.created_at = 0]

\* the events the run handed to insert_event, and their rows in a table
InsertedBy(w) ==
    LET stored == SelectSeq(w.calls, LAMBDA c : c.op = "insert_event")
    IN [i \in 1..Len(stored) |-> MaskedEvent(stored[i].row)]

StoredRows(table, w) ==
    {MaskedEvent(table[i]) : i \in {k \in 1..Len(table) :
        \E c \in 1..Len(w.calls) : /\ w.calls[c].op = "insert_event"
                                   /\ w.calls[c].arg = table[k].event_id}}

CallOps(w) == [i \in 1..Len(w.calls) |-> w.calls[i].op]

\* the run of job j that has returned behaved as the same run taken alone
SameAsAlone(j) ==
    LET a == exec[j].w
        r == exec[j].ref
    IN /\ OutcomeOf(exec[j].before, a) = OutcomeOf(exec[j].before, r)
       /\ a.ok = r.ok
       /\ a.err = r.err
       /\ RowRelative(exec[j].before, a) = RowRelative(exec[j].before, r)
       /\ jobs[j] = a.job
       /\ Payloads(a) = Payloads(r)
       /\ InsertedBy(a) = InsertedBy(r)
       /\ StoredRows(events, a) = StoredRows(r.events, r)
       /\ CallOps(a) = CallOps(r)

\* the id of the event of the run of job j in flight
OwnEventIds(j) ==
    IF IsSome(exec[j].locals) THEN {Unwrap(exec[j].locals).event_id} ELSE {}

\* a step of the run of job j touches the row of job j and the rows of its own
\* event only
StepIsLocal(j) ==
    /\ \A k \in DOMAIN jobs \ {j} : jobs'[k] = jobs[k] /\ exec'[k] = exec[k]
    /\ config' = config
    /\ resource' = resource
    /\ Len(events') >= Len(events)
    /\ \A i \in 1..Len(events) :
          events'[i] = events[i] \/ events[i].event_id \in OwnEventIds(j)
    /\ \A i \in (Len(events) + 1)..Len(events') :
          events'[i].event_id \in OwnEventIds(j)

\* C23: with at most one run in flight per task, the runs of different tasks
\* interleave step by step in any order, and every run that returns has the
\* outcome, the task row, the delivered payloads and the minted event (other
\* than created_at) of the same run taken alone; a step of a run changes only
\* the row of its task and the rows of its own event.
C23_InterleavingPreservesRuns ==
    /\ [](\A j \in DOMAIN jobs : exec[j].done => SameAsAlone(j))
    /\ [](\A j \in DOMAIN jobs : exec[j].pc /= "idle" => jobs[j] = exec[j].before)
    /\ [][\A j \in DOMAIN jobs : exec'[j] /= exec[j] => StepIsLocal(j)]_vars

C23_Witness ==
    /\ DOMAIN jobs = {1, 2}
    /\ \A j \in DOMAIN jobs : exec[j].done /\ Len(Payloads(exec[j].w)) = 1
    /\ exec[1].env.transport = "failure"
    /\ OutcomeOf(exec[1].before, exec[1].w) = "Rescheduled"
    /\ OutcomeOf(exec[2].before, exec[2].w) = COMPLETED_BY_PT
    \* job 2 began first and job 1 stored its event first
    /\ \E i, k \in MintedEvents :
          /\ i < k
          /\ events[i].primary_object_id = "pay_1"
          /\ events[i].event_id = "evt_2"
          /\ events[k].primary_object_id = "ref_1"
          /\ events[k].event_id = "evt_1"

(***************************************************************************)
(* The resolver called repeatedly                                          *)
(***************************************************************************)
\* a step in which the resolver was called
ResolveStep == r_out' /= r_out

ReconcilePath == Called("find_merchant_account_by_merchant_id")

\* C25: the event a run stores carries the request of the triggering event
\* as it is (present or absent), and the run replays exactly when that
\* request is present: with a stored request nothing is fetched and what goes
\* to the trigger is the parsed request without content; without one the run
\* fetches the resource and hands the trigger the fetched content.
C25_PathChosenByStoredRequest ==
    EventMinted =>
        /\ \A row \in InsertedRows : row.request = TriggeringEvent.request
        /\ events[CHOOSE i \in 1..Len(events) :
                     events[i].event_id = TheCall("insert_event").arg].request =
               TriggeringEvent.request
        /\ IsSome(TriggeringEvent.request) <=> ~ReconcilePath
        /\ IsSome(TriggeringEvent.request) =>
              /\ RetrieveCalls = {}
              /\ ~Called("get_outgoing_webhook_request")
              /\ \/ Called("trigger_webhook_and_raise_event")
                 \/ ~last.ok /\ last.err = "DeserializationFailed"
              /\ \A i \in CallIdx("trigger_webhook_and_raise_event") :
                    last.calls[i].arg.content = None
        /\ ~IsSome(TriggeringEvent.request) =>
              /\ last.env.fail /= "merchant_account" => RetrieveCalls /= {}
              /\ \A i \in CallIdx("trigger_webhook_and_raise_event") :
                    IsSome(last.calls[i].arg.content)

C25_Witness ==
    /\ EventMinted
    /\ ~IsSome(TriggeringEvent.request)
    /\ ReconcilePath
    /\ Called("send")
    /\ last.before.retry_count >= 1
    /\ \A i \in MintedEvents : ~IsSome(events[i].request)
    /\ Cardinality(MintedEvents) >= 2

\* reconciliation path, and the resource is still in the recorded state
MatchRun ==
    /\ Fetched
    /\ ~IsSome(TriggeringEvent.request)
    /\ FetchedEventType = Some(TrackingData.event_type)

\* the row the run handed to insert_event
MintedRow == CHOOSE row \in InsertedRows : TRUE

\* C26: on the reconciliation path, when the fetched event type equals
\* tracking_data.event_type, one OutgoingWebhook is built from the fetched
\* content with tracking_data.merchant_id, the event_id and created_at of the
\* event the run has just stored and the fetched event type; its request goes
\* to the delivery trigger and to the transport exactly once (if rendering
\* the request fails the run fails and nothing goes out), and the task is
\* not finished with RESOURCE_STATUS_MISMATCH.
C26_ReconcileDelivers ==
    MatchRun =>
        /\ Cardinality(CallIdx("get_outgoing_webhook_request")) = 1
        /\ Cardinality(InsertedRows) = 1
        /\ LET outgoing_webhook == TheCall("get_outgoing_webhook_request").arg
               request_content ==
                   get_outgoing_webhook_request(
                       outgoing_webhook,
                       BusinessProfiles[TrackingData.business_profile_id])
           IN /\ outgoing_webhook.merchant_id = TrackingData.merchant_id
              /\ outgoing_webhook.event_id = MintedRow.event_id
              /\ outgoing_webhook.event_id = TheCall("generate_event_id").arg
              /\ outgoing_webhook.timestamp = MintedRow.created_at
              /\ outgoing_webhook.timestamp = last.at
              /\ outgoing_webhook.event_type = Unwrap(FetchedEventType)
              /\ outgoing_webhook.content =
                     <<ContentKind(TrackingData.event_class),
                       TrackingData.primary_object_id, last.status>>
              /\ IF last.env.fail = "request_content"
                 THEN /\ ~last.ok
                      /\ last.err = "EApiErrorResponse"
                      /\ DeliveryCalls = {}
                      /\ StoreDecisions = {}
                 ELSE /\ last.ok
                      /\ Cardinality(CallIdx("trigger_webhook_and_raise_event")) = 1
                      /\ Cardinality(CallIdx("send")) = 1
                      /\ TheCall("trigger_webhook_and_raise_event").arg =
                             [event_id |-> MintedRow.event_id,
                              request_content |-> request_content,
                              delivery_attempt |-> AutomaticRetry,
                              content |-> Some(outgoing_webhook.content)]
                      /\ TheCall("send").arg = request_content
                      /\ TheCall("send").arg.body[2] = MintedRow.event_id
        /\ \A i \in CallIdx("finish_process_with_business_status") :
              last.calls[i].arg /= RESOURCE_STATUS_MISMATCH
        /\ jobs[last.job].business_status /= RESOURCE_STATUS_MISMATCH

C26_Witness ==
    /\ MatchRun
    /\ TrackingData.event_class = "Mandates"
    /\ Called("send")
    /\ last.env.transport = "failure"
    /\ last.before.retry_count >= 1
    /\ TheCall("send").arg.body[2] = "evt_2"
    /\ TheCall("get_outgoing_webhook_request").arg.timestamp > 0

(***************************************************************************)
(* The attempt number and the retry count                                  *)
(***************************************************************************)
\* the retry mapping in force for a merchant: the configured one when the
\* configuration is readable, the built-in default otherwise
MappingInForce(merchant_id) ==
    IF ConfigReadable THEN ConfiguredMapping(merchant_id)
    ELSE DefaultProcessTrackerMapping.default_mapping

\* C27: retry_webhook_delivery_task asks for the schedule of attempt
\* retry_count + 1: a task with retry_count 0 is rescheduled start_after
\* seconds from now, a task with retry_count k after the delay of attempt
\* k + 1, and it is finished when attempt k + 1 has no delay.
C27_AttemptIsRetryCountPlusOne ==
    RetryTaskRun =>
        LET k == last.before.retry_count
            rm == MappingInForce(TrackingData.merchant_id)
        IN /\ \A i \in CallIdx("get_webhook_delivery_retry_schedule_time") :
                 last.calls[i].arg.retry_count = k + 1
           /\ ResolvedScheduleTime = AtDelay(last.at, StepDelay(rm, k + 1))
           /\ k = 0 =>
                 /\ ResolvedScheduleTime = Some(last.at + rm.start_after)
                 /\ Called("retry_process")
                 /\ StoreAccepted =>
                       last.after.schedule_time = last.at + rm.start_after
           /\ (StoreAccepted /\ IsSome(StepDelay(rm, k + 1))) =>
                 /\ last.after.retry_count = k + 1
                 /\ last.after.schedule_time =
                        last.at + Unwrap(StepDelay(rm, k + 1))
           /\ (StoreAccepted /\ ~IsSome(StepDelay(rm, k + 1))) =>
                 /\ last.after.retry_count = k
                 /\ last.after.business_status = RETRIES_EXCEEDED

C27_Witness ==
    /\ RetryTaskRun
    /\ ConfigReadable
    /\ config.mapping = TwoStepMapping
    /\ last.before.retry_count = 4
    /\ TheCall("get_webhook_delivery_retry_schedule_time").arg.retry_count = 5
    /\ StoreAccepted
    /\ last.after.schedule_time = last.at + 600
    /\ jobs[last.job].retry_count = 5

\* the run handed a request to the delivery trigger
HandedOver == Ran /\ Called("trigger_webhook_and_raise_event")

\* C28: on the replay path and on the reconciliation path a run that has
\* handed its request to the delivery trigger returns Ok whatever the
\* transport answers, and the error handler is not invoked; a failed
\* delivery goes to the retry schedule, which reschedules the task or
\* finishes it with RETRIES_EXCEEDED.
C28_TransportFailureIsNotFailedExecution ==
    /\ HandedOver =>
          /\ last.ok
          /\ last.err = "-"
          /\ ~Called("consumer_error_handler")
          /\ ~FailedExecution
    /\ FailedDelivery =>
          /\ HandedOver
          /\ Cardinality(CallIdx("get_webhook_delivery_retry_schedule_time")) = 1
          /\ \A i \in CallIdx("finish_process_with_business_status") :
                last.calls[i].arg = RETRIES_EXCEEDED
          /\ StoreAccepted => (Rescheduled \/ FinishedExhausted)
          /\ StoreAccepted => ~(Rescheduled /\ FinishedExhausted)

C28_Witness ==
    /\ FailedDelivery
    /\ ReconcilePath
    /\ StoreAccepted
    /\ Rescheduled
    /\ last.ok
    /\ last.before.retry_count = 1
    /\ jobs[last.job].retry_count = 2

(***************************************************************************)
(* Infrastructure retries and business retries                             *)
(***************************************************************************)
\* C29: a run that fails is handed to error_handler, which makes one call,
\* consumer_error_handler with the error of the run; such a run does not
\* consult the webhook retry schedule and is neither rescheduled nor
\* finished by it.  A run that returns Ok never reaches error_handler, and
\* the retry count of a task moves only in a run that returned Ok and whose
\* reschedule came from retry_webhook_delivery_task after the delivery.
C29_TwoRetryTiers ==
    Ran =>
        /\ ~last.ok =>
              /\ Cardinality(CallIdx("consumer_error_handler")) = 1
              /\ last.calls[Len(last.calls)] =
                     [op |-> "consumer_error_handler", arg |-> last.err]
              /\ ~Called("get_webhook_delivery_retry_schedule_time")
              /\ ~Called("retry_process")
              /\ ~Called("send")
              /\ last.after = last.before
        /\ last.ok => ~Called("consumer_error_handler")
        /\ \A i \in CallIdx("retry_process") :
              /\ last.ok
              /\ \E s \in CallIdx("send") : s < i
              /\ i - 1 \in CallIdx("get_webhook_delivery_retry_schedule_time")
              /\ last.calls[i].arg = last.calls[i - 1].arg.schedule_time[1]
        /\ last.after.retry_count /= last.before.retry_count =>
              /\ last.ok
              /\ RetryTaskRun
              /\ Called("retry_process")
        /\ \A i \in CallIdx("get_webhook_delivery_retry_schedule_time") :
              \E s \in CallIdx("send") : s < i

C29_Witness ==
    /\ Ran
    /\ ~last.ok
    /\ Called("consumer_error_handler")
    /\ last.err = "EApiErrorResponse"
    /\ last.before.retry_count >= 1
    /\ Len(reschedules[last.job]) >= 1
    /\ jobs[last.job] = last.before

(***************************************************************************)
(* Progress of a task                                                      *)
(***************************************************************************)
\* the most recent run (in the primed state) rescheduled job j
RescheduledIn(j) ==
    /\ RunStep
    /\ last'.job = j
    /\ last'.env.fail /= "process_store"
    /\ \E i \in 1..Len(last'.calls) : last'.calls[i].op = "retry_process"

\* a run of the task in which no collaborator fails returns Ok
CanComplete(j) ==
    execute_workflow(jobs[j], [fail |-> "none", transport |-> "success"]).ok

\* C30: the retry count of a task never goes down and goes up by exactly one
\* in a step that reschedules the task; it never exceeds 1 + the sum of the
\* counts of the mapping in force; and when the consumer keeps running a due
\* task whose runs can complete, the task eventually carries a terminal
\* business status.
C30_RetriesBoundedAndTerminate ==
    /\ [](\A j \in DOMAIN jobs :
             /\ jobs[j].retry_count >= 0
             /\ jobs[j].retry_count = Len(reschedules[j])
             /\ jobs[j].retry_count <=
                    1 + SumSeq(MappingInForce(jobs[j].tracking_data.merchant_id).count))
    /\ [][\A j \in DOMAIN jobs :
             jobs'[j].retry_count =
                 jobs[j].retry_count + (IF RescheduledIn(j) THEN 1 ELSE 0)]_vars
    /\ \A j \in Jobs :
          (j \in DOMAIN jobs /\ jobs[j].status = "Pending" /\ CanComplete(j))
              ~> (j \in DOMAIN jobs /\ jobs[j].business_status \in TerminalTags)

C30_Witness ==
    /\ config = NoConfig
    /\ \E j \in DOMAIN jobs :
          /\ jobs[j].retry_count = 4
          /\ jobs[j].business_status = RETRIES_EXCEEDED
          /\ Len(reschedules[j]) = 1 + SumSeq(<<2, 1>>)
          /\ faults[j] = MaxFaults

(***************************************************************************)
(* Resource State Fetcher, by event class                                  *)
(***************************************************************************)
\* the domain service and the content variant of each event class
FetcherTable ==
    [Payments |-> [service |-> "payments_core", content |-> "PaymentDetails"],
     Refunds |-> [service |-> "refund_retrieve_core_with_refund_id",
                  content |-> "RefundDetails"],
     Disputes |-> [service |-> "retrieve_dispute", content |-> "DisputeDetails"],
     Mandates |-> [service |-> "get_mandate", content |-> "MandateDetails"],
     Payouts |-> [service |-> "make_payout_data", content |-> "PayoutDetails"]]

\* C31: a run that reaches the fetcher calls exactly one domain service, the
\* one of tracking_data.event_class, with tracking_data.primary_object_id;
\* when the service answers, the content handed on is the variant of that
\* class (PaymentDetails, RefundDetails, DisputeDetails, MandateDetails,
\* PayoutDetails) holding the resource as it is now, and the current event
\* type is the one mapped from the status the resource has now: the run
\* renders a webhook exactly when that type is the recorded one, and
\* otherwise finishes with RESOURCE_STATUS_MISMATCH.
C31_FetcherDispatchesOnEventClass ==
    (Ran /\ RetrieveCalls /= {}) =>
        LET class == TrackingData.event_class
            id == TrackingData.primary_object_id
            current == StatusToEventType(class, last.status)
        IN /\ class \in DOMAIN FetcherTable
           /\ Cardinality(RetrieveCalls) = 1
           /\ \A i \in RetrieveCalls :
                 /\ last.calls[i].op = FetcherTable[class].service
                 /\ last.calls[i].arg.id = id
           /\ Fetched =>
                 /\ Called("get_outgoing_webhook_request") <=>
                        current = Some(TrackingData.event_type)
                 /\ \A i \in CallIdx("get_outgoing_webhook_request") :
                       /\ last.calls[i].arg.content =
                              <<FetcherTable[class].content, id, last.status>>
                       /\ last.calls[i].arg.event_type = Unwrap(current)
                 /\ \A i \in CallIdx("trigger_webhook_and_raise_event") :
                       last.calls[i].arg.content =
                           Some(<<FetcherTable[class].content, id, last.status>>)
                 /\ ~Called("get_outgoing_webhook_request") =>
                       /\ Called("finish_process_with_business_status")
                       /\ TheCall("finish_process_with_business_status").arg =
                              RESOURCE_STATUS_MISMATCH

\* a payout moved to "failed" and back to "success" is fetched as
\* PayoutDetails and delivered as PayoutSuccess
C31_Witness ==
    /\ Fetched
    /\ TrackingData.event_class = "Payouts"
    /\ Called("send")
    /\ TheCall("get_outgoing_webhook_request").arg.content =
           <<"PayoutDetails", "po_1", "success">>
    /\ TheCall("get_outgoing_webhook_request").arg.event_type = "PayoutSuccess"
    /\ TheCall("make_payout_data").arg.id = "po_1"
    /\ last.before.retry_count >= 1

\* reconciliation path, and the status the resource has now maps to no event
\* type: the fetcher returned (content, None)
UnmappedStatusRun ==
    /\ Fetched
    /\ ~IsSome(TriggeringEvent.request)
    /\ FetchedEventType = None

\* C32: a run on the reconciliation path whose fetcher returns no event type
\* renders no webhook, hands nothing to the delivery trigger or the
\* transport, does not consult the retry schedule, and makes exactly one
\* process-store call, finish_process_with_business_status with
\* RESOURCE_STATUS_MISMATCH: the run is Ok and the task ends finished with
\* that tag (if the store rejects the call the run fails and the row stays).
C32_NoEventTypeIsMismatch ==
    UnmappedStatusRun =>
        /\ ~Called("get_outgoing_webhook_request")
        /\ ~Called("trigger_webhook_and_raise_event")
        /\ ~Called("send")
        /\ ~Called("get_webhook_delivery_retry_schedule_time")
        /\ CallIdx("retry_process") = {}
        /\ Cardinality(CallIdx("finish_process_with_business_status")) = 1
        /\ TheCall("finish_process_with_business_status").arg = RESOURCE_STATUS_MISMATCH
        /\ IF StoreAccepted
           THEN /\ last.ok
                /\ ~Called("consumer_error_handler")
                /\ jobs[last.job].status = "Finish"
                /\ jobs[last.job].business_status = RESOURCE_STATUS_MISMATCH
                /\ jobs[last.job].retry_count = last.before.retry_count
           ELSE ~last.ok /\ jobs[last.job] = last.before

\* a refund back in "pending" when its retry runs
C32_Witness ==
    /\ UnmappedStatusRun
    /\ TrackingData.event_class = "Refunds"
    /\ last.status = "pending"
    /\ last.ok
    /\ jobs[last.job].business_status = RESOURCE_STATUS_MISMATCH
    /\ ~Called("send")

(***************************************************************************)
(* Failures after the event of the run is stored                           *)
(***************************************************************************)
\* the stored request of the triggering event does not parse
StoredRequestMalformed ==
    /\ IsSome(TriggeringEvent.request)
    /\ ~parse_request_content(Unwrap(TriggeringEvent.request)).ok

\* the run stored its event and then failed at the merchant account lookup,
\* in the fetcher, at rendering the request or at parsing the stored request
FailedAfterMint ==
    /\ EventMinted
    /\ \/ last.env.fail \in {"merchant_account", "fetch_error",
                             "fetch_non_content", "request_content"}
       \/ StoredRequestMalformed

\* rows stored by runs of the workflow that were never delivered
UndeliveredMinted == {i \in MintedEvents : ~events[i].is_webhook_notified}

\* C33: a run that fails after storing its event (merchant account lookup,
\* fetcher, rendering the request, parsing the stored request) returns an
\* error that goes to the error handler; the event it stored stays in the
\* table, not notified and not successful; nothing reaches the delivery
\* trigger or the transport; the run makes no process-store call and leaves
\* the task row as it was, still pending; and the step of such a run grows
\* the events table by exactly that one row, so the undelivered events pile
\* up by one per failed run.
C33_FailureAfterMintLeavesEvent ==
    /\ [](FailedAfterMint =>
             /\ ~last.ok
             /\ Called("consumer_error_handler")
             /\ DeliveryCalls = {}
             /\ StoreDecisions = {}
             /\ ~Called("get_webhook_delivery_retry_schedule_time")
             /\ jobs[last.job] = last.before
             /\ jobs[last.job].status = "Pending"
             /\ jobs[last.job].business_status = Pending
             /\ Cardinality({i \in 1..Len(events) :
                    events[i].event_id = TheCall("insert_event").arg}) = 1
             /\ \A i \in 1..Len(events) :
                   events[i].event_id = TheCall("insert_event").arg =>
                      /\ i \in UndeliveredMinted
                      /\ events[i].is_overall_delivery_successful = Some(FALSE)
                      /\ events[i].response = None)
    /\ [][(RunStep /\ FailedAfterMint') =>
             /\ Len(events') = Len(events) + 1
             /\ SubSeq(events', 1, Len(events)) = events
             /\ events'[Len(events')].event_id = TheCall("insert_event").arg'
             /\ UndeliveredMinted' = UndeliveredMinted \cup {Len(events')}]_vars

\* the runs of a task of the old version failed one after the other, at
\* rendering the request: as many undelivered events, the task as it was
C33_Witness ==
    /\ FailedAfterMint
    /\ last.env.fail = "request_content"
    /\ faults[last.job] = MaxFaults
    /\ Cardinality(UndeliveredMinted) = MaxRepeats
    /\ Cardinality(MintedEvents) = MaxRepeats
    /\ jobs[last.job].retry_count = 0
    /\ jobs[last.job].status = "Pending"

(***************************************************************************)
(* The resolver and the overrides of other merchants                       *)
(***************************************************************************)
\* the part of a configuration that is about the merchant: whether the value
\* is there and deserializes, the default mapping and the merchant's own entry
OwnPart(c, merchant_id) ==
    [kind |-> c.kind, wellformed |-> c.wellformed,
     default_mapping |-> c.mapping.default_mapping,
     own |-> c.mapping.custom_merchant_mapping[merchant_id]]

\* C34: under configurations that differ only in the custom_merchant_mapping
\* entries of other merchants, the resolver gives a merchant the same delay
\* for the same attempt number and the same first attempt number without a
\* schedule time; the delay is the one of the merchant's own entry, or of the
\* default mapping when it has none.
C34_OtherOverridesDoNotMatter ==
    \A i, k \in 1..Len(r_out.delays) :
        /\ OwnPart(r_out.configs[i], r_in.merchant_id) =
               OwnPart(r_out.configs[k], r_in.merchant_id)
        /\ r_out.delays[i] = r_out.delays[k]
        /\ r_out.points[i] = r_out.points[k]
        /\ (r_out.configs[i].kind = "Value" /\ r_out.configs[i].wellformed) =>
              LET own == OwnPart(r_out.configs[i], r_in.merchant_id)
              IN r_out.delays[i] =
                     StepDelay(IF IsSome(own.own) THEN Unwrap(own.own)
                               ELSE own.default_mapping, r_in.retry_count)

\* merchant m1 has no entry; the entry of m2 is added and then replaced
\* between the calls, and m1 is exhausted at attempt 7 all along
C34_Witness ==
    /\ Len(r_out.delays) = MaxResolves
    /\ r_in.merchant_id = "m1"
    /\ r_in.retry_count = 7
    /\ r_out.configs[1].mapping.custom_merchant_mapping =
           [m1 |-> None, m2 |-> None]
    /\ r_out.configs[2].mapping.custom_merchant_mapping["m2"] =
           Some(RetryMapping(10, <<50>>, <<1>>))
    /\ r_out.configs[2] /= r_out.configs[MaxResolves]
    /\ r_out.delays[MaxResolves] = None
    /\ r_out.points[1] = 7
    /\ r_out.points[MaxResolves] = 7

(***************************************************************************)
(* The mismatch finish rejected by the job store                           *)
(***************************************************************************)
\* the resource has moved on, and the store rejects the finish call
MismatchFinishRejected == MismatchRun /\ ~StoreAccepted

\* C35: when the run finds the resource status changed and the job store
\* rejects finish_process_with_business_status, the run returns that error
\* and goes to the error handler; no request is rendered, nothing reaches the
\* delivery trigger or the transport, the retry schedule is not consulted and
\* retry_process is not called; the task row stays as it was and the event
\* of the run stays undelivered.
C35_MismatchFinishFailureIsFailedExecution ==
    MismatchFinishRejected =>
        /\ ~last.ok
        /\ last.err = "DatabaseError"
        /\ Called("consumer_error_handler")
        /\ TheCall("consumer_error_handler").arg = "DatabaseError"
        /\ ~Called("get_outgoing_webhook_request")
        /\ DeliveryCalls = {}
        /\ ~Called("get_webhook_delivery_retry_schedule_time")
        /\ CallIdx("retry_process") = {}
        /\ Cardinality(CallIdx("finish_process_with_business_status")) = 1
        /\ TheCall("finish_process_with_business_status").arg = RESOURCE_STATUS_MISMATCH
        /\ last.calls[Len(last.calls) - 1].op = "finish_process_with_business_status"
        /\ jobs[last.job] = last.before
        /\ jobs[last.job].status = "Pending"
        /\ jobs[last.job].business_status = Pending
        /\ \A i \in 1..Len(events) :
              events[i].event_id = TheCall("insert_event").arg =>
                 ~events[i].is_webhook_notified

\* a payment that failed after one undelivered retry was rescheduled
C35_Witness ==
    /\ MismatchFinishRejected
    /\ ~last.ok
    /\ FetchedEventType = Some("PaymentFailed")
    /\ last.before.retry_count = 1
    /\ jobs[last.job].retry_count = 1
    /\ jobs[last.job].status = "Pending"
    /\ Cardinality(MintedEvents) = 2

(***************************************************************************)
(* Fields a CustomerUpdate touches                                         *)
(***************************************************************************)
\* the fields of CustomerUpdateInternal in the v1 and in the v2 build
InternalFields(version) ==
    {"name", "email", "phone", "description", "phone_country_code", "metadata",
     "connector_customer", "modified_at", "default_payment_method_id",
     "updated_by"}
      \cup (IF version = "v1" THEN {"address_id"}
            ELSE {"default_billing_address", "default_shipping_address", "status"})

\* a step in which the conversion was made
ConvertStep == customer_update_internal' /= customer_update_internal

\* C36: the value converted from a CustomerUpdate has the fields of
\* CustomerUpdateInternal of the build; from ConnectorCustomer it carries the
\* given connector_customer and modified_at and None everywhere else; from
\* UpdateDefaultPaymentMethod it carries the given default_payment_method_id
\* and modified_at and None everywhere else; from the general Update it has
\* updated_by = None, and in v1 default_payment_method_id = None; modified_at
\* is the clock at the conversion.
C36_UpdateTouchesNamedFields ==
    /\ [](IsSome(customer_update_internal) =>
             LET given == customer_update
                 internal == Unwrap(customer_update_internal)
             IN /\ DOMAIN internal = InternalFields(given.version)
                /\ given.variant = "ConnectorCustomer" =>
                      /\ internal.connector_customer = given.connector_customer
                      /\ \A f \in DOMAIN internal \ {"connector_customer", "modified_at"} :
                            internal[f] = None
                /\ given.variant = "UpdateDefaultPaymentMethod" =>
                      /\ internal.default_payment_method_id =
                             given.default_payment_method_id
                      /\ \A f \in DOMAIN internal \
                                     {"default_payment_method_id", "modified_at"} :
                            internal[f] = None
                /\ given.variant = "Update" =>
                      /\ internal.updated_by = None
                      /\ given.version = "v1" =>
                            internal.default_payment_method_id = None)
    /\ [][ConvertStep =>
             /\ Unwrap(customer_update_internal').modified_at = now
             /\ customer_update' = customer_update]_vars

\* a general update of the v1 build with every field given, converted after
\* the clock moved
C36_Witness ==
    /\ IsSome(customer_update_internal)
    /\ customer_update.version = "v1"
    /\ customer_update.variant = "Update"
    /\ \A f \in DOMAIN customer_update \ {"version", "variant"} :
          IsSome(customer_update[f])
    /\ Unwrap(customer_update_internal).name = Some([inner |-> "enc_name"])
    /\ Unwrap(customer_update_internal).address_id = Some("add_1")
    /\ Unwrap(customer_update_internal).modified_at = ClockStep
    /\ Unwrap(customer_update_internal).updated_by = None

====
